---- MODULE Spec2Model ----
(***************************************************************************)
(* Playback session state machine of bot.py.                               *)
(*                                                                         *)
(* The program is a set of coroutines on one cooperative event loop.  A    *)
(* step of the model is the code a coroutine runs between two suspension   *)
(* points (await of a network call, of the resolver, of a sleep); steps of *)
(* different coroutines interleave freely, as the event loop allows.       *)
(*                                                                         *)
(* GuildPlayer objects have identity: a coroutine keeps the object it got  *)
(* from get_player after the registry dropped it.  P maps object ids to    *)
(* the fields of GuildPlayer, players is the registry entry of the guild.  *)
(* The voice client is modelled by what the code observes of it:           *)
(*   vc  guild.voice_client: "none", "connected", "closing" (disconnect    *)
(*       called by a coroutine, the client not yet removed from the guild) *)
(*       or "lost" (the bot was removed from the channel and the library   *)
(*       is closing the client)                                            *)
(*   ap  the audio player inside it: "none", "playing", "paused", "ended"  *)
(* A coroutine's local voice_client is "none", "live" (the guild's present *)
(* client) or "stale" (a client that has been disconnected since).         *)
(*                                                                         *)
(* Time is whole seconds: now is get_current_time(), srcpos is             *)
(* voice_client.source.position (-1: the source has no such attribute).    *)
(* Spec leaves time at 0 and explores the interleavings of the handlers;   *)
(* SpecClock starts from a playing track and lets time pass.               *)
(*                                                                         *)
(* mh is the MessageHandler of a play command, chan what Discord holds of  *)
(* its messages; SpecMsg runs one handler: initialize, then its sends,     *)
(* with every outcome of the network calls.                                *)
(*                                                                         *)
(* players, P, vc, ap and tasks are the session of one guild.  guilds      *)
(* holds the sessions of two guilds side by side: players[guild.id],       *)
(* guild.voice_client and the coroutines whose ctx.guild is that guild;    *)
(* SpecGuilds runs the handlers of both.                                   *)
(*                                                                         *)
(* loops are the update_progress tasks, the coroutines that refresh the     *)
(* panel; pnl is the set of GuildPlayer objects whose player_message is a   *)
(* message that exists in the channel.  A loop changes no field the         *)
(* handlers read other than player_message, which it only replaces by       *)
(* another message; Spec leaves the loops aside, SpecPanel and SpecRestart  *)
(* run them with the handlers.                                              *)
(*                                                                         *)
(* rsl is the resolution of one load: whether cookies are available, the    *)
(* yt-dlp calls made so far (with or without cookiefile, and their          *)
(* outcome), where the load stands and the error it surfaced.  Spec takes   *)
(* the resolver's answer as one step; SpecResolve runs its attempts.        *)
(*                                                                         *)
(* lostVoice tells whether the voice connection was lost since the last    *)
(* play request: "no", "lost" (on_voice_state_update not yet done),        *)
(* "ignored" (the guild had no session) or "failed" (the reconnection      *)
(* failed and the session was popped).                                     *)
(***************************************************************************)
EXTENDS Integers, Sequences, FiniteSets, TLC

VARIABLES players, P, vc, ap, tasks, plays, presses, lastStop,
          reply, now, srcpos, reading, pausedFor, mh, chan, sent, lostVoice,
          guilds, loops, pnl, rsl

vars == <<players, P, vc, ap, tasks, plays, presses, lastStop,
          reply, now, srcpos, reading, pausedFor, mh, chan, sent, lostVoice,
          guilds, loops, pnl, rsl>>

\* ---------------------------------------------------------------- bounds
MaxQueue == 2
MaxTasks == 3
MaxObj == 2
MaxPlays == 2
MaxPresses == 2
MaxCmds == 4
\* SpecClock: the last second of the run, and the longest time a load takes.
MaxNow == 13
MaxLoad == 2
\* SpecMsg: the sends of one handler and the messages it may create.
MaxSends == 3
MaxMsgs == 4
\* SpecPanel, SpecRefresh: the update_progress tasks alive at one time.
MaxLoops == 2

Tracks == {"A", "B", "C"}
\* Track references are opaque to the program (it only compares them), so the
\* n-th play request draws from the first n tracks.
TrackNo == [u \in Tracks |-> IF u = "A" THEN 1 ELSE IF u = "B" THEN 2 ELSE 3]
None == "none"
Slots == 1..MaxTasks
Objs == 1..MaxObj
LoopSlots == 1..MaxLoops

\* ---------------------------------------------------------------- data
\* A time that is None.
NoTime == -1
\* update_progress gives up when its error_count reaches this.
MaxErrors == 3
\* play_command's search_strategies.
MaxStrategies == 5
\* The position sample is used while younger than this many seconds.
SampleMaxAge == 5

\* The clock fields of GuildPlayer as play_track resets them at time t.
StartedClock(t) ==
  [start_time |-> t, pause_time |-> NoTime, total_paused_time |-> 0,
   is_paused |-> FALSE, last_position |-> 0, position_update_time |-> NoTime]

\* GuildPlayer.__init__
NewPlayer ==
  [queue |-> <<>>, playback_history |-> <<>>, loop_mode |-> 0,
   current_track_url |-> None, player_message |-> FALSE,
   clock |-> StartedClock(NoTime)]

\* The button pressed in the step that led here, what it tells the user, and
\* whether the session was Idle when it was pressed; NoReply after any other
\* step.
NoReply == [button |-> "none", text |-> "none", idle |-> FALSE]
\* get_elapsed_time has not been read yet.
NoReading == [value |-> 0, at |-> NoTime]

\* MessageHandler.__init__; last_error and last_send_error record whether an
\* exception is stored.
NewHandler ==
  [message |-> None, initialized |-> FALSE, last_error |-> FALSE,
   message_history |-> <<>>, last_send_attempt |-> None,
   last_send_error |-> FALSE, thinking_message |-> None]
\* The messages of the handler in the channel: the n-th message created is
\* MsgNames[n], alive are those not deleted, ack is the deferred
\* acknowledgment while it still shows "thinking".
MsgNames == <<"m1", "m2", "m3", "m4", "m5", "m6">>
NoChannel == [alive |-> {}, created |-> 0, ack |-> None]
\* The last call of the handler: whether it raised, how many of its network
\* operations failed, how many messages it edited, and the sends so far.
NoCall ==
  [op |-> "new", raised |-> FALSE, failed |-> 0, edited |-> 0, n |-> 0]

\* The guilds of SpecGuilds.
Guilds == {"g1", "g2"}

\* A free coroutine slot.  kind is the handler the coroutine started in, pc
\* the suspension point it waits at, url/vcl/obj its locals url, voice_client
\* and player; want is prev_track of the previous_button whose forced stop
\* scheduled this completion callback.
NoTask ==
  [kind |-> "free", pc |-> "free", url |-> None, vcl |-> "none", obj |-> 0,
   want |-> None]

\* No update_progress task.  pc is the suspension point the task waits at,
\* obj its player, errors its error_count, handle whether the task is its
\* player's progress_task; streak counts the errors since the last panel
\* update that succeeded.
NoLoop ==
  [pc |-> "free", obj |-> 0, errors |-> 0, streak |-> 0, handle |-> FALSE]
\* The GuildPlayer objects the update_progress tasks lp refer to.
Held(lp) == {lp[l].obj : l \in {k \in LoopSlots : lp[k].pc # "free"}}

\* The resolution of a load before its first yt-dlp call; tries holds one
\* record per ydl.extract_info call: cred tells whether its options held a
\* cookiefile, out how it ended.
NoAttempts == [cookies |-> FALSE, stage |-> "none", tries |-> <<>>, err |-> "none"]

\* What the last stop_button saw when pressed (n queued tracks, c: a track was
\* current, quiet: no other coroutine was running), and whether it has
\* completed; reset by the next play request.
NoStop == [n |-> 0, c |-> FALSE, quiet |-> FALSE, done |-> FALSE]

\* The suspension points of play_track before the stream has started.
LoadPcs == {"pt_del", "pt_sleep", "pt_conn", "pt_extract"}

St ==
  [players |-> players, P |-> P, vc |-> vc, ap |-> ap, tasks |-> tasks,
   lastStop |-> lastStop, lostVoice |-> lostVoice, now |-> now,
   held |-> Held(loops), ovf |-> FALSE]

InSeq(x, s) == \E i \in 1..Len(s) : s[i] = x

FreeSlots(s) == {t \in Slots : s.tasks[t].kind = "free"}
FreeObjs(s) ==
  {o \in Objs : o # s.players /\ o \notin s.held
                  /\ \A t \in Slots : s.tasks[t].obj # o}
Min(S) == CHOOSE x \in S : \A y \in S : x <= y

SetPc(s, t, pc) == [s EXCEPT !.tasks[t].pc = pc]
Finish(s, t) == [s EXCEPT !.tasks[t] = NoTask]

\* A new coroutine on the event loop.
Spawn(s, rec) ==
  IF FreeSlots(s) = {} THEN [s EXCEPT !.ovf = TRUE]
  ELSE [s EXCEPT !.tasks[Min(FreeSlots(s))] = rec]

\* get_player: the guild's GuildPlayer, created if the registry has none.
GetPlayer(s) ==
  IF s.players # 0 THEN s
  ELSE IF FreeObjs(s) = {} THEN [s EXCEPT !.ovf = TRUE]
  ELSE [s EXCEPT !.players = Min(FreeObjs(s)),
                 !.P[Min(FreeObjs(s))] = NewPlayer]

\* voice_client.stop(): ends the audio player; a player that had not ended
\* calls its `after`, which schedules handle_playback_complete.
VoiceStop(s, want) ==
  IF s.ap \in {"playing", "paused"}
    THEN Spawn([s EXCEPT !.ap = "none"],
               [NoTask EXCEPT !.kind = "play_next", !.pc = "cb", !.want = want])
    ELSE [s EXCEPT !.ap = "none"]

\* voice_client.disconnect() up to its first suspension: stops the player and
\* marks the client not connected; a client already closing returns at once.
DisconnectBegin(s) ==
  IF s.vc = "connected" THEN [VoiceStop(s, None) EXCEPT !.vc = "closing"] ELSE s

\* voice_client.disconnect() completing: the client leaves the guild.
DisconnectEnd(s) ==
  IF s.vc = "closing"
    THEN [s EXCEPT !.vc = "none",
                   !.tasks = [t \in Slots |->
                               IF s.tasks[t].vcl = "live"
                                 THEN [s.tasks[t] EXCEPT !.vcl = "stale"]
                                 ELSE s.tasks[t]]]
    ELSE s

\* Objects no coroutine and no registry entry refers to are gone.
Reap(s) ==
  [o \in Objs |->
    IF o = s.players \/ o \in s.held \/ \E t \in Slots : s.tasks[t].obj = o
      THEN s.P[o] ELSE NewPlayer]

\* The event loop does not order its coroutines: slots are kept sorted, so
\* that one set of coroutines is one state.
PcNo(pc) ==
  CASE pc = "free" -> 0 [] pc = "cb" -> 1 [] pc = "pn_sleep" -> 2
    [] pc = "pn_disc" -> 3 [] pc = "pc_search" -> 4 [] pc = "pt_del" -> 5
    [] pc = "pt_sleep" -> 6 [] pc = "pt_conn" -> 7 [] pc = "pt_extract" -> 8
    [] pc = "pt_panel" -> 9 [] pc = "stop_disc" -> 10 [] pc = "stop_del" -> 11
    [] pc = "vs_start" -> 13 [] pc = "vs_del" -> 14 [] pc = "vs_disc" -> 15
    [] pc = "cb_err" -> 16 [] pc = "cb_disc" -> 17
    [] OTHER -> 12
UrlNo(u) == IF u = None THEN 0 ELSE TrackNo[u]
Key(r) ==
  (((PcNo(r.pc) * 4 + UrlNo(r.url)) * 4 + UrlNo(r.want)) * 4 + r.obj) * 8
    + (IF r.vcl = "none" THEN 0 ELSE IF r.vcl = "live" THEN 1 ELSE 2)
    + (IF r.kind = "play_next" THEN 4 ELSE 0)
Before(k, a, b) == k[a] > k[b] \/ (k[a] = k[b] /\ a < b)
Rank(k) == [t \in Slots |-> Cardinality({u \in Slots : Before(k, u, t)})]

\* The step that leaves the program in state s.
Apply(s) ==
  \E x \in {s} :
    /\ ~x.ovf
    /\ players' = x.players
    /\ P' = Reap(x)
    /\ vc' = x.vc
    /\ ap' = x.ap
    /\ \E rk \in {Rank(k) : k \in {[t \in Slots |-> Key(x.tasks[t])]}} :
         tasks' = [i \in Slots |-> x.tasks[CHOOSE t \in Slots : rk[t] = i - 1]]
    /\ lastStop' = x.lastStop
    /\ lostVoice' = x.lostVoice

\* ---------------------------------------------------------------- guilds
\* What the program holds for one guild: its registry entry and GuildPlayer
\* objects, its voice client, the coroutines running for it.
Session(s) ==
  [players |-> s.players, P |-> s.P, vc |-> s.vc, ap |-> s.ap,
   tasks |-> s.tasks, lastStop |-> s.lastStop, lostVoice |-> s.lostVoice]
\* A guild the bot has not played in.
NoSession ==
  [players |-> 0, P |-> [o \in Objs |-> NewPlayer], vc |-> "none",
   ap |-> "none", tasks |-> [t \in Slots |-> NoTask], lastStop |-> NoStop,
   lostVoice |-> "no"]
\* A guild where track u plays with queue q behind it, its panel posted.
Playing(u, q) ==
  [NoSession EXCEPT
     !.players = 1,
     !.P[1] = [NewPlayer EXCEPT !.queue = q, !.playback_history = <<u>>,
                                !.current_track_url = u,
                                !.player_message = TRUE,
                                !.clock = StartedClock(0)],
     !.vc = "connected", !.ap = "playing"]

\* The state a handler whose interaction.guild or ctx.guild is g works on.
GuildSt(gs, g, t) ==
  [players |-> gs[g].players, P |-> gs[g].P, vc |-> gs[g].vc, ap |-> gs[g].ap,
   tasks |-> gs[g].tasks, lastStop |-> gs[g].lastStop,
   lostVoice |-> gs[g].lostVoice, now |-> t, held |-> {}, ovf |-> FALSE]

\* State s with its unreferenced objects gone and its coroutines in the
\* order rk.
Settled(s, rk) ==
  [s EXCEPT !.P = Reap(s),
            !.tasks = [i \in Slots |->
                        s.tasks[CHOOSE t \in Slots : rk[t] = i - 1]]]

\* Mutant of Keyed: the handler's writes reach every guild.
Keyed_AllGuilds(gs, g, s) == [h \in Guilds |-> Session(s)]

\* The handler of guild g leaves state s: players[g.id], g.voice_client and
\* g's coroutines are written, under g's key.
Keyed(gs, g, s) == [gs EXCEPT ![g] = Session(s)]

\* ---------------------------------------------------------------- play_track
\* play_track from "Set current track info" to the next suspension.
PlayTrackSet(s, t, iv) ==
  LET o == s.tasks[t].obj
      s1 == [s EXCEPT !.P[o].current_track_url = s.tasks[t].url,
                      !.P[o].clock = StartedClock(s.now)]
  IN IF s.tasks[t].vcl = "none"
       THEN IF iv THEN SetPc(s1, t, "pt_conn") ELSE Finish(s1, t)
       ELSE SetPc(s1, t, "pt_extract")

\* play_track from "Stop any existing playback".
PlayTrackStop(s, t, iv) ==
  IF s.tasks[t].vcl = "live" /\ s.ap = "playing"
    THEN SetPc(VoiceStop(s, None), t, "pt_sleep")
    ELSE PlayTrackSet(s, t, iv)

\* play_track from its first line: coroutine t calls play_track(ctx, url).
PlayTrack(s, t, url, iv) ==
  LET s1 == GetPlayer([s EXCEPT !.tasks[t].obj = 0])
      o == s1.players
      s2 == [s1 EXCEPT !.tasks[t].obj = o, !.tasks[t].url = url,
                       !.tasks[t].vcl = IF s1.vc = "none" THEN "none" ELSE "live"]
  IN IF s1.ovf THEN s1
     ELSE IF s2.P[o].player_message THEN SetPc(s2, t, "pt_del")
     ELSE PlayTrackStop(s2, t, iv)

\* The old panel's delete returned.
PlayTrackDeleted(s, t, iv) ==
  PlayTrackStop([s EXCEPT !.P[s.tasks[t].obj].player_message = FALSE], t, iv)

\* channel.connect returned or raised.
PlayTrackConnected(s, t, ok) ==
  IF s.vc # "none" \/ ~ok THEN Finish(s, t)
  ELSE [s EXCEPT !.vc = "connected", !.ap = "none",
                 !.tasks[t].vcl = "live", !.tasks[t].pc = "pt_extract"]

\* The resolver returned: res is "ok", "fail" (no info) or "nosrc" (the encoder
\* could not be created).
PlayTrackExtracted(s, t, res) ==
  LET o == s.tasks[t].obj
      u == s.tasks[t].url
      h == s.P[o].playback_history
      s1 == [s EXCEPT !.P[o].playback_history =
                         IF InSeq(u, h) THEN h ELSE Append(h, u)]
      cleared == [s1 EXCEPT !.P[o].current_track_url = None]
  IN IF res = "fail" THEN Finish(s, t)
     ELSE IF res = "nosrc" THEN Finish(cleared, t)
     ELSE IF s.tasks[t].vcl # "live" \/ s.vc # "connected" \/ s.ap = "playing"
       THEN Finish(cleared, t)
     ELSE SetPc([s1 EXCEPT !.ap = "playing"], t, "pt_panel")

\* The panel's channel.send returned or raised.
PlayTrackPanel(s, t, ok) ==
  Finish(IF ok THEN [s EXCEPT !.P[s.tasks[t].obj].player_message = TRUE] ELSE s, t)

\* ---------------------------------------------------------------- play_next
\* Mutants of Requeue: the finished track is requeued with loop mode Off; loop
\* mode Track requeues at the tail; loop mode Queue requeues at the head.
Requeue_AlsoWhenOff(q, cur, lm) ==
  IF cur # None /\ lm = 1 THEN <<cur>> \o q
  ELSE IF cur # None THEN Append(q, cur)
  ELSE q
Requeue_TrackAtTail(q, cur, lm) ==
  IF cur # None /\ lm \in {1, 2} THEN Append(q, cur) ELSE q
Requeue_QueueAtHead(q, cur, lm) ==
  IF cur # None /\ lm \in {1, 2} THEN <<cur>> \o q ELSE q

\* The queue after play_next's loop handling of the finished track cur.
Requeue(q, cur, lm) ==
  IF cur # None /\ lm = 1 THEN <<cur>> \o q
  ELSE IF cur # None /\ lm = 2 THEN Append(q, cur)
  ELSE q

\* handle_playback_complete(ctx, None) -> play_next, up to its first
\* suspension: in play_track, or in the 180 s sleep.
PlayNext(s, t, iv) ==
  LET s1 == GetPlayer([s EXCEPT !.tasks[t].obj = 0])
      o == s1.players
      pl == s1.P[o]
      q == Requeue(pl.queue, pl.current_track_url, pl.loop_mode)
      s2 == [s1 EXCEPT !.P[o].current_track_url = None, !.tasks[t].obj = o]
  IN IF s1.ovf THEN s1
     ELSE IF q # <<>>
       THEN PlayTrack([s2 EXCEPT !.P[o].queue = Tail(q)], t, Head(q), iv)
       ELSE SetPc([s2 EXCEPT !.P[o].queue = q], t, "pn_sleep")

\* play_next after asyncio.sleep(180).
PlayNextTimer(s, t) ==
  IF s.vc # "none" /\ s.ap # "playing" /\ s.P[s.tasks[t].obj].queue = <<>>
    THEN IF s.vc = "connected"
           THEN SetPc(DisconnectBegin(s), t, "pn_disc")
           ELSE Finish([s EXCEPT !.players = 0], t)
    ELSE Finish(s, t)

\* play_next after its disconnect returned: players.pop.
PlayNextDisconnected(s, t) ==
  Finish([DisconnectEnd(s) EXCEPT !.players = 0], t)

\* ---------------------------------------------------------------- handle_playback_complete
\* Mutant of CompleteReconnect: the failure of the reconnection ends the
\* callback.
CompleteReconnect_GivesUp(s, t, iv) == Finish(s, t)

\* handle_playback_complete after its disconnect: the reconnection
\* ctx.guild.voice_client.connect(reconnect=True) raises (AttributeError
\* without a voice client, TypeError otherwise: connect has a required
\* keyword timeout), the exception is caught, and play_next is called.
CompleteReconnect(s, t, iv) == PlayNext(s, t, iv)

\* handle_playback_complete(ctx, error) with a ConnectionClosed error, up to
\* its first suspension: disconnect(force=True) of the guild's voice client,
\* if there is one.
CompleteClosed(s, t, iv) ==
  IF s.vc = "none" THEN CompleteReconnect(s, t, iv)
  ELSE SetPc(DisconnectBegin(s), t, "cb_disc")

\* handle_playback_complete after disconnect(force=True) returned.
CompleteDisconnected(s, t, iv) == CompleteReconnect(DisconnectEnd(s), t, iv)

\* ---------------------------------------------------------------- play_command
\* play_command up to the search: the player is fetched before the resolver
\* is awaited.
PlayCommandStart(s, url) ==
  LET s1 == GetPlayer(s)
  IN IF s1.ovf THEN s1
     ELSE Spawn([s1 EXCEPT !.lastStop = NoStop, !.lostVoice = "no"],
                [NoTask EXCEPT !.kind = "play_command", !.pc = "pc_search",
                               !.url = url, !.obj = s1.players])

\* "Only add to queue if not already playing".
PlayCommandDecide(s, t, iv) ==
  LET o == s.tasks[t].obj
      u == s.tasks[t].url
  IN IF s.vc = "none" \/ s.ap # "playing"
       THEN PlayTrack(s, t, u, iv)
       ELSE IF Len(s.P[o].queue) >= MaxQueue THEN [s EXCEPT !.ovf = TRUE]
       ELSE Finish([s EXCEPT !.P[o].queue = Append(s.P[o].queue, u)], t)

\* ---------------------------------------------------------------- clock
\* GuildPlayer.pause
Pause(c, t) ==
  IF ~c.is_paused THEN [c EXCEPT !.pause_time = t, !.is_paused = TRUE] ELSE c

\* Mutant of Resume: the paused interval is not added to total_paused_time.
Resume_ForgetsInterval(c, t) ==
  IF c.is_paused /\ c.pause_time # NoTime
    THEN [c EXCEPT !.pause_time = NoTime, !.is_paused = FALSE]
    ELSE c

\* GuildPlayer.resume
Resume(c, t) ==
  IF c.is_paused /\ c.pause_time # NoTime
    THEN [c EXCEPT !.total_paused_time = c.total_paused_time + (t - c.pause_time),
                   !.pause_time = NoTime, !.is_paused = FALSE]
    ELSE c

Max(a, b) == IF a >= b THEN a ELSE b

\* get_elapsed_time's "Fallback to time-based calculation".
TimeBased(c, t) ==
  IF c.is_paused /\ c.pause_time # NoTime
    THEN (c.pause_time - c.start_time) - c.total_paused_time
    ELSE (t - c.start_time) - c.total_paused_time

\* GuildPlayer.get_elapsed_time at time t: the value returned and the clock
\* fields it leaves.  playing: the guild has a voice client that is_playing();
\* pos: its source's position (-1: no such attribute).
GetElapsedTime(c, t, playing, pos) ==
  LET position == IF pos >= 0 THEN pos ELSE 0
      base == TimeBased(c, t)
      elapsed == IF c.position_update_time # NoTime
                    /\ t - c.position_update_time < SampleMaxAge
                   THEN Max(base, c.last_position) ELSE base
  IN IF c.start_time = NoTime THEN [value |-> 0, clock |-> c]
     ELSE IF playing /\ position > 0
       THEN [value |-> position,
             clock |-> [c EXCEPT !.last_position = position,
                                 !.position_update_time = t]]
     ELSE [value |-> Max(0, elapsed), clock |-> c]

\* ---------------------------------------------------------------- buttons
\* Mutants of previous_button: the current track is not put back in the
\* queue; one history entry is enough.
PreviousButton_DropsCurrent(s) ==
  LET s1 == GetPlayer(s)
      o == s1.players
      pl == s1.P[o]
      h == pl.playback_history
      s2 == [s1 EXCEPT !.P[o].queue = <<h[Len(h) - 1]>> \o pl.queue,
                       !.P[o].playback_history = SubSeq(h, 1, Len(h) - 2)]
  IN IF s1.ovf THEN s1
     ELSE IF Len(h) > 1
       THEN IF s2.vc # "none" THEN VoiceStop(s2, h[Len(h) - 1]) ELSE s2
       ELSE s1
PreviousButton_OneEntry(s) ==
  LET s1 == GetPlayer(s)
      o == s1.players
      pl == s1.P[o]
      h == pl.playback_history
      prev == h[IF Len(h) > 1 THEN Len(h) - 1 ELSE 1]
      q1 == IF pl.current_track_url # None
              THEN <<pl.current_track_url>> \o pl.queue ELSE pl.queue
      s2 == [s1 EXCEPT !.P[o].queue = <<prev>> \o q1,
                       !.P[o].playback_history = SubSeq(h, 1, Len(h) - 2)]
  IN IF s1.ovf THEN s1
     ELSE IF Len(h) > 0
       THEN IF s2.vc # "none" THEN VoiceStop(s2, prev) ELSE s2
       ELSE s1

\* MusicControls.previous_button
PreviousButton(s) ==
  LET s1 == GetPlayer(s)
      o == s1.players
      pl == s1.P[o]
      h == pl.playback_history
      prev == h[Len(h) - 1]
      q1 == IF pl.current_track_url # None
              THEN <<pl.current_track_url>> \o pl.queue ELSE pl.queue
      s2 == [s1 EXCEPT !.P[o].queue = <<prev>> \o q1,
                       !.P[o].playback_history = SubSeq(h, 1, Len(h) - 2)]
  IN IF s1.ovf THEN s1
     ELSE IF Len(h) > 1
       THEN IF s2.vc # "none" THEN VoiceStop(s2, prev) ELSE s2
       ELSE s1

\* The message previous_button passes to handle_interaction.
PreviousReply(s) ==
  IF s.players = 0 \/ Len(s.P[s.players].playback_history) <= 1
    THEN "No previous track in history."
  ELSE IF s.vc # "none" THEN "Playing previous track."
  ELSE "Not connected to voice channel."

\* The message play_pause_button passes to handle_interaction: none without
\* a voice client, and "Starting playback." only after play_track returned.
PlayPauseReply(s) ==
  IF s.vc = "none" THEN "none"
  ELSE IF s.ap = "paused" THEN "Resumed."
  ELSE IF s.ap = "playing" THEN "Paused."
  ELSE IF s.players # 0 /\ s.P[s.players].queue # <<>> THEN "pending"
  ELSE "Nothing in queue to play."

\* MusicControls.play_pause_button
PlayPauseButton(s, iv) ==
  LET s1 == GetPlayer(s)
      o == s1.players
      q == s1.P[o].queue
      s2 == Spawn(s1, [NoTask EXCEPT !.kind = "play_pause", !.pc = "run"])
      t == Min(FreeSlots(s1))
  IN IF s1.ovf THEN s1
     ELSE IF s1.vc = "none" THEN s1
     ELSE IF s1.ap = "paused"
       THEN [s1 EXCEPT !.ap = "playing",
                       !.P[o].clock = Resume(s1.P[o].clock, s1.now)]
     ELSE IF s1.ap = "playing"
       THEN [s1 EXCEPT !.ap = "paused",
                       !.P[o].clock = Pause(s1.P[o].clock, s1.now)]
     ELSE IF q = <<>> THEN s1
     ELSE IF s2.ovf THEN s2
     ELSE PlayTrack([s2 EXCEPT !.P[o].queue = Tail(q)], t, Head(q), iv)

\* MusicControls.skip_button: the second branch reads the undefined name
\* `player` and raises; like the third it changes nothing.
SkipButton(s) ==
  IF s.vc # "none" /\ s.ap = "playing" THEN VoiceStop(s, None) ELSE s

\* What skip_button's user gets: its message, or the NameError of the second
\* branch's `player.queue` (evaluated whenever there is a voice client that
\* is not playing).
SkipReply(s) ==
  IF s.vc # "none" /\ s.ap = "playing" THEN "Skipped."
  ELSE IF s.vc # "none" THEN "NameError"
  ELSE "Nothing to skip."

\* Mutant of loop_button: the cycle runs backwards.
LoopButton_TwoSteps(s) ==
  LET s1 == GetPlayer(s)
      o == s1.players
  IN IF s1.ovf THEN s1
     ELSE [s1 EXCEPT !.P[o].loop_mode = (s1.P[o].loop_mode + 2) % 3]

\* MusicControls.loop_button
LoopButton(s) ==
  LET s1 == GetPlayer(s)
      o == s1.players
  IN IF s1.ovf THEN s1
     ELSE [s1 EXCEPT !.P[o].loop_mode = (s1.P[o].loop_mode + 1) % 3]

\* The message loop_button passes to handle_interaction.
LoopReply(s) == "Loop mode set."

\* The message stop_button passes to handle_interaction, the first only after
\* its disconnect and players.pop.
StopReply(s) ==
  IF s.vc # "none" THEN "pending" ELSE "Not connected to a voice channel."

\* Mutant of StopPop: the registry entry is kept.
StopPop_KeepsEntry(s, t) ==
  Finish([s EXCEPT !.lastStop.done = TRUE], t)

\* stop_button's last statement before its reply: players.pop.
StopPop(s, t) ==
  Finish([s EXCEPT !.players = 0, !.lastStop.done = TRUE], t)

\* stop_button after its disconnect returned.
StopAfterDisconnect(s, t) ==
  IF s.P[s.tasks[t].obj].player_message
    THEN SetPc(s, t, "stop_del") ELSE StopPop(s, t)

StopDisconnected(s, t) == StopAfterDisconnect(DisconnectEnd(s), t)

\* MusicControls.stop_button up to its first suspension.
StopButton(s) ==
  LET s1 == GetPlayer(s)
      o == s1.players
      t == Min(FreeSlots(s1))
      snap == [n |-> Len(s1.P[o].queue), c |-> s1.P[o].current_track_url # None,
               quiet |-> \A u \in Slots : s1.tasks[u].pc \in {"free", "pn_sleep"},
               done |-> FALSE]
      s2 == Spawn([s1 EXCEPT !.lastStop = snap],
                  [NoTask EXCEPT !.kind = "stop", !.pc = "stop_disc",
                                 !.obj = o, !.vcl = "live"])
      s3 == VoiceStop([s2 EXCEPT !.P[o].queue = <<>>], None)
  IN IF s1.ovf THEN s1
     ELSE IF s1.vc = "none" THEN s1
     ELSE IF s2.ovf THEN s2
     ELSE IF s3.vc = "connected" THEN DisconnectBegin(s3)
     ELSE StopAfterDisconnect(s3, t)

\* ---------------------------------------------------------------- on_voice_state_update
\* The bot is removed from its voice channel: the library stops the audio
\* player (a live stream calls its `after`) and starts closing the client,
\* and on_voice_state_update(member, before, after) is dispatched with a
\* channel before and none after.
VoiceLost(s) ==
  Spawn([VoiceStop(s, None) EXCEPT !.vc = "lost", !.lostVoice = "lost"],
        [NoTask EXCEPT !.kind = "voice_update", !.pc = "vs_start"])

\* The library has closed the lost client: it leaves the guild.
VoiceClosed(s) == DisconnectEnd([s EXCEPT !.vc = "closing"])

\* on_voice_state_update's except branch: players.pop(guild_id, None).
VoiceReconnectFailed(s, t) ==
  Finish([s EXCEPT !.players = 0, !.lostVoice = "failed"], t)

\* on_voice_state_update's reconnection attempt.  A connected client is
\* disconnected first; then member.guild.voice_client.connect(reconnect=True)
\* raises: AttributeError when the guild has no voice client, TypeError
\* otherwise (VoiceClient.connect has a required keyword timeout).
VoiceReconnect(s, t) ==
  IF s.vc = "connected" THEN SetPc(DisconnectBegin(s), t, "vs_disc")
  ELSE VoiceReconnectFailed(s, t)

\* on_voice_state_update up to its first suspension.
VoiceStateUpdate(s, t) ==
  LET s1 == [s EXCEPT !.tasks[t].obj = s.players]
  IN IF s.players = 0 THEN Finish([s EXCEPT !.lostVoice = "ignored"], t)
     ELSE IF s1.P[s.players].player_message THEN SetPc(s1, t, "vs_del")
     ELSE VoiceReconnect(s1, t)

\* on_voice_state_update after its disconnect(force=True) returned.
VoiceDisconnected(s, t) == VoiceReconnectFailed(DisconnectEnd(s), t)

\* ---------------------------------------------------------------- environment
\* The stream of the playing track ends by itself: the audio player calls
\* its `after`.
StreamEnd(s) ==
  Spawn([s EXCEPT !.ap = "ended"],
        [NoTask EXCEPT !.kind = "play_next", !.pc = "cb"])

\* The stream of the playing track ends with an error of the encoder or of
\* the connection: `after` is called with the error, a ConnectionClosed
\* (closed) or any other.
StreamFailed(s, closed) ==
  Spawn([s EXCEPT !.ap = "ended"],
        [NoTask EXCEPT !.kind = "play_next",
                       !.pc = IF closed THEN "cb_err" ELSE "cb"])

\* ---------------------------------------------------------------- update_progress
\* The session s with the update_progress tasks lp and the live panels pn.
Panel(s, lp, pn) == [s |-> s, loops |-> lp, pnl |-> pn]

\* play_track's voice_client.play succeeds.
StreamStarts(s, t, res) ==
  res = "ok" /\ s.tasks[t].vcl = "live" /\ s.vc = "connected"
    /\ s.ap # "playing"

\* The tasks left when player o's progress_task is cancelled.
Cancelled(lp, o) ==
  [l \in LoopSlots |->
     IF lp[l].obj = o /\ lp[l].handle THEN NoLoop ELSE lp[l]]

\* play_track, "Start progress updates": player.progress_task is cancelled
\* and replaced by a new update_progress task.
StartProgress(lp, o) ==
  LET rest == Cancelled(lp, o)
  IN [rest EXCEPT
        ![Min({l \in LoopSlots : rest[l].pc = "free"})] =
           [NoLoop EXCEPT !.pc = "up_check", !.obj = o, !.handle = TRUE]]

\* update_progress reaches its asyncio.sleep(5).
ProgressSleep(x, l) == [x EXCEPT !.loops[l].pc = "up_check"]

\* update_progress from the head of its loop to the next suspension: the
\* three tests, get_elapsed_time (pos is the source's position), then the
\* fetch of the panel or, without a panel, the sleep.
ProgressHead(x, l, pos) ==
  LET o == x.loops[l].obj
      pl == x.s.P[o]
      r == GetElapsedTime(pl.clock, x.s.now, TRUE, pos)
      x1 == [x EXCEPT !.s.P[o].clock = r.clock]
  IN IF pl.current_track_url = None \/ x.s.vc = "none" \/ x.s.ap # "playing"
       THEN [x EXCEPT !.loops[l] = NoLoop]
     ELSE IF pl.player_message THEN [x1 EXCEPT !.loops[l].pc = "up_fetch"]
     ELSE ProgressSleep(x1, l)

\* An exception counted by update_progress: error_count += 1, and the loop
\* is left when it has reached 3.
ProgressError(x, l) ==
  IF x.loops[l].errors + 1 >= MaxErrors THEN [x EXCEPT !.loops[l] = NoLoop]
  ELSE [x EXCEPT !.loops[l].errors = x.loops[l].errors + 1,
                 !.loops[l].streak = x.loops[l].streak + 1,
                 !.loops[l].pc = "up_check"]

\* player_message.fetch() returned ("ok"), raised NotFound or raised another
\* exception.  After "ok" the panel is edited, unless player_message has
\* become None meanwhile (AttributeError, counted).
ProgressFetched(x, l, out) ==
  IF out = "notfound" THEN [x EXCEPT !.loops[l].pc = "up_send"]
  ELSE IF out = "ok" /\ x.s.P[x.loops[l].obj].player_message
    THEN [x EXCEPT !.loops[l].pc = "up_edit"]
  ELSE ProgressError(x, l)

\* player_message.edit(embed=embed) returned or raised: NotFound leads to a
\* new panel, Forbidden is skipped, any other exception is counted.
ProgressEdited(x, l, out) ==
  IF out = "ok" THEN ProgressSleep([x EXCEPT !.loops[l].streak = 0], l)
  ELSE IF out = "notfound" THEN [x EXCEPT !.loops[l].pc = "up_send2"]
  ELSE IF out = "forbidden" THEN ProgressSleep(x, l)
  ELSE ProgressError(x, l)

\* player.player_message = await ctx.channel.send(...) returned or raised.
\* After the fetch's NotFound the loop continues at its head without
\* sleeping, after the edit's NotFound it sleeps.
ProgressSent(x, l, ok, pos) ==
  LET o == x.loops[l].obj
      x1 == [x EXCEPT !.s.P[o].player_message = TRUE,
                      !.pnl = x.pnl \cup {o},
                      !.loops[l].streak = 0]
  IN IF ~ok THEN ProgressError(x, l)
     ELSE IF x.loops[l].pc = "up_send" THEN ProgressHead(x1, l, pos)
     ELSE ProgressSleep(x1, l)

\* ---------------------------------------------------------------- actions
\* No play command's MessageHandler is in use.
NoHandler == mh = NewHandler /\ chan = NoChannel /\ sent = NoCall
\* The runs of one guild leave guilds aside.
NoGuilds == guilds = [g \in Guilds |-> NoSession]
\* No update_progress task, no panel.
NoRefresh == loops = [l \in LoopSlots |-> NoLoop] /\ pnl = {}

\* No load is being resolved.
NoResolver == rsl = NoAttempts

Init ==
  /\ players = 0
  /\ P = [o \in Objs |-> NewPlayer]
  /\ vc = "none"
  /\ ap = "none"
  /\ tasks = [t \in Slots |-> NoTask]
  /\ plays = 0
  /\ presses = 0
  /\ lastStop = NoStop
  /\ reply = NoReply
  /\ now = 0
  /\ srcpos = -1
  /\ reading = NoReading
  /\ pausedFor = 0
  /\ NoHandler
  /\ lostVoice = "no"
  /\ NoGuilds
  /\ NoRefresh
  /\ NoResolver

At(t, pc) == tasks[t].pc = pc

\* No time passes and get_elapsed_time is not read.
Timeless == UNCHANGED <<now, srcpos, reading, pausedFor>>
\* No MessageHandler call, and no step of the guilds of SpecGuilds.
Quietly == UNCHANGED <<mh, chan, sent, guilds, rsl>>
\* Nor a step of an update_progress task, nor a panel sent or deleted.
Silent == Quietly /\ UNCHANGED <<loops, pnl>>
Internal ==
  UNCHANGED <<plays, presses>> /\ reply' = NoReply /\ Timeless /\ Silent
Command ==
  /\ presses < MaxPresses
  /\ plays + presses < MaxCmds
  /\ presses' = presses + 1
  /\ plays' = plays
Pressed(b, text) ==
  [button |-> b, text |-> text,
   idle |-> (players = 0 \/ P[players].current_track_url = None)
              /\ ~(vc = "connected" /\ ap \in {"playing", "paused"})]
Press(b, text) ==
  Command /\ reply' = Pressed(b, text) /\ Timeless /\ Silent

DoPlayCommand ==
  \E u \in Tracks :
    /\ plays < MaxPlays
    /\ plays + presses < MaxCmds
    /\ TrackNo[u] <= plays + 1
    /\ plays' = plays + 1
    /\ presses' = presses
    /\ reply' = NoReply
    /\ Timeless
    /\ Silent
    /\ Apply(PlayCommandStart(St, u))
DoPrevious ==
  Press("previous", PreviousReply(St)) /\ Apply(PreviousButton(St))
DoPlayPause ==
  \E iv \in BOOLEAN :
    Press("play_pause", PlayPauseReply(St)) /\ Apply(PlayPauseButton(St, iv))
DoSkip == Press("skip", SkipReply(St)) /\ Apply(SkipButton(St))
DoLoop == Press("loop", LoopReply(St)) /\ Apply(LoopButton(St))
DoStop == Press("stop", StopReply(St)) /\ Apply(StopButton(St))

DoSearchFailed(t) ==
  At(t, "pc_search") /\ Apply(Finish(St, t)) /\ Internal
DoDecide(t, iv) ==
  At(t, "pc_search") /\ Apply(PlayCommandDecide(St, t, iv)) /\ Internal
DoPlayNext(t, iv) ==
  At(t, "cb") /\ Apply(PlayNext(St, t, iv)) /\ Internal
DoTimer(t) ==
  At(t, "pn_sleep") /\ Apply(PlayNextTimer(St, t)) /\ Internal
DoTimerDisconnected(t) ==
  At(t, "pn_disc") /\ Apply(PlayNextDisconnected(St, t)) /\ Internal
DoDeleted(t, iv) ==
  At(t, "pt_del") /\ Apply(PlayTrackDeleted(St, t, iv)) /\ Internal
DoSlept(t, iv) ==
  At(t, "pt_sleep") /\ Apply(PlayTrackSet(St, t, iv)) /\ Internal
DoConnected(t, ok) ==
  At(t, "pt_conn") /\ Apply(PlayTrackConnected(St, t, ok)) /\ Internal
DoExtracted(t, res) ==
  At(t, "pt_extract") /\ Apply(PlayTrackExtracted(St, t, res)) /\ Internal
DoPanel(t, ok) ==
  At(t, "pt_panel") /\ Apply(PlayTrackPanel(St, t, ok)) /\ Internal
DoStopDisconnected(t) ==
  At(t, "stop_disc") /\ Apply(StopDisconnected(St, t)) /\ Internal
DoStopDeleted(t) ==
  At(t, "stop_del") /\ Apply(StopPop(St, t)) /\ Internal
DoStreamEnd ==
  ap = "playing" /\ Apply(StreamEnd(St)) /\ Internal

DoVoiceLost ==
  vc = "connected" /\ Apply(VoiceLost(St)) /\ Internal
DoVoiceClosed ==
  vc = "lost" /\ Apply(VoiceClosed(St)) /\ Internal
DoVoiceUpdate(t) ==
  At(t, "vs_start") /\ Apply(VoiceStateUpdate(St, t)) /\ Internal
DoVoiceDeleted(t) ==
  At(t, "vs_del") /\ Apply(VoiceReconnect(St, t)) /\ Internal
DoVoiceDisconnected(t) ==
  At(t, "vs_disc") /\ Apply(VoiceDisconnected(St, t)) /\ Internal

DoCompleteClosed(t, iv) ==
  At(t, "cb_err") /\ Apply(CompleteClosed(St, t, iv)) /\ Internal
DoCompleteDisconnected(t, iv) ==
  At(t, "cb_disc") /\ Apply(CompleteDisconnected(St, t, iv)) /\ Internal

Next ==
  \/ DoPlayCommand
  \/ DoPrevious
  \/ DoPlayPause
  \/ DoSkip
  \/ DoLoop
  \/ DoStop
  \/ DoStreamEnd
  \/ \E t \in Slots :
       \/ \E iv \in BOOLEAN :
            \/ DoDecide(t, iv)
            \/ DoPlayNext(t, iv)
            \/ DoDeleted(t, iv)
            \/ DoSlept(t, iv)
            \/ DoConnected(t, iv)
            \/ DoPanel(t, iv)
       \/ DoSearchFailed(t)
       \/ DoTimer(t)
       \/ DoTimerDisconnected(t)
       \/ DoStopDisconnected(t)
       \/ DoStopDeleted(t)
       \/ \E res \in {"ok", "fail", "nosrc"} : DoExtracted(t, res)

Spec == Init /\ [][Next]_vars

\* ---------------------------------------------------------------- a full queue
\* The session after three play requests: C plays, A and B are queued, the
\* panel is posted.  No further play request is made in these runs.
QueuedInit ==
  /\ players = 1
  /\ P = [o \in Objs |->
           IF o = 1
             THEN [NewPlayer EXCEPT !.queue = <<"A", "B">>,
                                    !.playback_history = <<"C">>,
                                    !.current_track_url = "C",
                                    !.player_message = TRUE,
                                    !.clock = StartedClock(0)]
             ELSE NewPlayer]
  /\ vc = "connected"
  /\ ap = "playing"
  /\ tasks = [t \in Slots |-> NoTask]
  /\ plays = MaxPlays
  /\ presses = 0
  /\ lastStop = NoStop
  /\ reply = NoReply
  /\ now = 0
  /\ srcpos = -1
  /\ reading = NoReading
  /\ pausedFor = 0
  /\ NoHandler
  /\ lostVoice = "no"
  /\ NoGuilds
  /\ NoRefresh
  /\ NoResolver

QueuedNext ==
  \/ DoPrevious
  \/ DoPlayPause
  \/ DoSkip
  \/ DoLoop
  \/ DoStop
  \/ DoStreamEnd
  \/ \E t \in Slots :
       \/ \E iv \in BOOLEAN :
            \/ DoPlayNext(t, iv)
            \/ DoDeleted(t, iv)
            \/ DoSlept(t, iv)
            \/ DoConnected(t, iv)
            \/ DoPanel(t, iv)
       \/ DoTimer(t)
       \/ DoTimerDisconnected(t)
       \/ DoStopDisconnected(t)
       \/ DoStopDeleted(t)
       \/ \E res \in {"ok", "fail", "nosrc"} : DoExtracted(t, res)

SpecQueued == QueuedInit /\ [][QueuedNext]_vars

\* ---------------------------------------------------------------- stop in progress
\* A state Spec reaches after two play requests and one stop: A and B have
\* played in turn, the queue ran empty and play_next sleeps its 180 s; then
\* stop_button was pressed, its disconnect has returned and it awaits the
\* deletion of the panel, players.pop still ahead.  plays and presses count
\* the commands from here on.
StoppingInit ==
  /\ players = 1
  /\ P = [o \in Objs |->
           IF o = 1
             THEN [NewPlayer EXCEPT !.playback_history = <<"A", "B">>,
                                    !.player_message = TRUE,
                                    !.clock = StartedClock(0)]
             ELSE NewPlayer]
  /\ vc = "none"
  /\ ap = "none"
  /\ tasks = [t \in Slots |->
               IF t = 1
                 THEN [NoTask EXCEPT !.kind = "stop", !.pc = "stop_del",
                                     !.obj = 1, !.vcl = "stale"]
               ELSE IF t = 2
                 THEN [NoTask EXCEPT !.kind = "play_next", !.pc = "pn_sleep",
                                     !.obj = 1]
               ELSE NoTask]
  /\ plays = 0
  /\ presses = 0
  /\ lastStop = [n |-> 0, c |-> FALSE, quiet |-> TRUE, done |-> FALSE]
  /\ reply = NoReply
  /\ now = 0
  /\ srcpos = -1
  /\ reading = NoReading
  /\ pausedFor = 0
  /\ NoHandler
  /\ lostVoice = "no"
  /\ NoGuilds
  /\ NoRefresh
  /\ NoResolver

\* The buttons, and the two coroutines still running, with no new play
\* request.
StoppingNext ==
  \/ DoPrevious
  \/ DoPlayPause
  \/ DoSkip
  \/ DoLoop
  \/ DoStop
  \/ \E t \in Slots :
       \/ DoStopDeleted(t)
       \/ DoTimer(t)

SpecStopping == StoppingInit /\ [][StoppingNext]_vars

\* ---------------------------------------------------------------- clock runs
\* Track A was requested at second 0 (play_track reset the clock then), its
\* stream has just started at second `now`, the panel is posted.
ClockInit ==
  /\ players = 1
  /\ P = [o \in Objs |->
           IF o = 1
             THEN [NewPlayer EXCEPT !.playback_history = <<"A">>,
                                    !.current_track_url = "A",
                                    !.player_message = TRUE,
                                    !.clock = StartedClock(0)]
             ELSE NewPlayer]
  /\ vc = "connected"
  /\ ap = "playing"
  /\ tasks = [t \in Slots |-> NoTask]
  /\ plays = 1
  /\ presses = 0
  /\ lastStop = NoStop
  /\ reply = NoReply
  /\ now \in 0..MaxLoad
  /\ srcpos \in {-1, 0}
  /\ reading = NoReading
  /\ pausedFor = 0
  /\ NoHandler
  /\ lostVoice = "no"
  /\ NoGuilds
  /\ NoRefresh
  /\ NoResolver

\* One second passes; a source that reports its position advances while the
\* audio player plays.
ClockTick ==
  /\ now < MaxNow
  /\ now' = now + 1
  /\ srcpos' = IF ap = "playing" /\ srcpos >= 0 THEN srcpos + 1 ELSE srcpos
  /\ pausedFor' = IF ap = "paused" THEN pausedFor + 1 ELSE pausedFor
  /\ reply' = NoReply
  /\ Silent
  /\ UNCHANGED <<players, P, vc, ap, tasks, plays, presses, lastStop, reading,
                 lostVoice>>

\* play_pause_button at any time.
ClockPlayPause ==
  /\ reply' = Pressed("play_pause", PlayPauseReply(St))
  /\ Apply(PlayPauseButton(St, TRUE))
  /\ UNCHANGED <<plays, presses>>
  /\ Timeless
  /\ Silent

\* create_player_embed / update_progress read get_elapsed_time.
ClockRead ==
  /\ players # 0
  /\ \E r \in {GetElapsedTime(P[players].clock, now,
                                vc # "none" /\ ap = "playing", srcpos)} :
       /\ reading' = [value |-> r.value, at |-> now]
       /\ P' = [P EXCEPT ![players].clock = r.clock]
  /\ reply' = NoReply
  /\ Silent
  /\ UNCHANGED <<players, vc, ap, tasks, plays, presses, lastStop,
                 now, srcpos, pausedFor, lostVoice>>

ClockNext == ClockTick \/ ClockPlayPause \/ ClockRead

SpecClock == ClockInit /\ [][ClockNext]_vars

\* ---------------------------------------------------------------- voice loss
\* A state Spec reaches after one play request: A plays, its panel is posted.
\* From here the bot can also be removed from the voice channel; no further
\* play request is made in these runs.
VoiceInit ==
  /\ players = 1
  /\ P = [o \in Objs |->
           IF o = 1
             THEN [NewPlayer EXCEPT !.playback_history = <<"A">>,
                                    !.current_track_url = "A",
                                    !.player_message = TRUE,
                                    !.clock = StartedClock(0)]
             ELSE NewPlayer]
  /\ vc = "connected"
  /\ ap = "playing"
  /\ tasks = [t \in Slots |-> NoTask]
  /\ plays = MaxPlays
  /\ presses = 0
  /\ lastStop = NoStop
  /\ reply = NoReply
  /\ now = 0
  /\ srcpos = -1
  /\ reading = NoReading
  /\ pausedFor = 0
  /\ NoHandler
  /\ lostVoice = "no"
  /\ NoGuilds
  /\ NoRefresh
  /\ NoResolver

VoiceNext ==
  \/ DoPrevious
  \/ DoPlayPause
  \/ DoSkip
  \/ DoLoop
  \/ DoStop
  \/ DoStreamEnd
  \/ DoVoiceLost
  \/ DoVoiceClosed
  \/ \E t \in Slots :
       \/ \E iv \in BOOLEAN :
            \/ DoPlayNext(t, iv)
            \/ DoDeleted(t, iv)
            \/ DoConnected(t, iv)
            \/ DoPanel(t, iv)
       \/ DoTimer(t)
       \/ DoTimerDisconnected(t)
       \/ DoStopDisconnected(t)
       \/ DoStopDeleted(t)
       \/ DoVoiceUpdate(t)
       \/ DoVoiceDeleted(t)
       \/ DoVoiceDisconnected(t)
       \/ \E res \in {"ok", "fail", "nosrc"} : DoExtracted(t, res)

SpecVoice == VoiceInit /\ [][VoiceNext]_vars

\* ---------------------------------------------------------------- stream errors
\* A state Spec reaches after two play requests: A has played, B plays, C is
\* queued (a third request), the panel is posted.  From here streams also end
\* with errors; no further play request is made and stop is not pressed.
FailingInit ==
  /\ players = 1
  /\ P = [o \in Objs |->
           IF o = 1
             THEN [NewPlayer EXCEPT !.queue = <<"C">>,
                                    !.playback_history = <<"A", "B">>,
                                    !.current_track_url = "B",
                                    !.player_message = TRUE,
                                    !.clock = StartedClock(0)]
             ELSE NewPlayer]
  /\ vc = "connected"
  /\ ap = "playing"
  /\ tasks = [t \in Slots |-> NoTask]
  /\ plays = MaxPlays
  /\ presses = 0
  /\ lastStop = NoStop
  /\ reply = NoReply
  /\ now = 0
  /\ srcpos = -1
  /\ reading = NoReading
  /\ pausedFor = 0
  /\ NoHandler
  /\ lostVoice = "no"
  /\ NoGuilds
  /\ NoRefresh
  /\ NoResolver

FailingNext ==
  \/ DoPrevious
  \/ DoPlayPause
  \/ DoSkip
  \/ DoLoop
  \/ DoStreamEnd
  \/ \E closed \in BOOLEAN :
       ap = "playing" /\ Apply(StreamFailed(St, closed)) /\ Internal
  \/ \E t \in Slots :
       \/ \E iv \in BOOLEAN :
            \/ DoPlayNext(t, iv)
            \/ DoCompleteClosed(t, iv)
            \/ DoCompleteDisconnected(t, iv)
            \/ DoDeleted(t, iv)
            \/ DoSlept(t, iv)
            \/ DoConnected(t, iv)
            \/ DoPanel(t, iv)
       \/ DoTimer(t)
       \/ DoTimerDisconnected(t)
       \/ \E res \in {"ok", "fail", "nosrc"} : DoExtracted(t, res)

SpecFailing == FailingInit /\ [][FailingNext]_vars

\* ---------------------------------------------------------------- panel refresh
\* A state Spec reaches after one play request: the stream of A has just
\* started and its update_progress task was created; play_track is about to
\* send the panel.  B is queued (a second request).
PanelInit ==
  /\ players = 1
  /\ P = [o \in Objs |->
           IF o = 1
             THEN [NewPlayer EXCEPT !.queue = <<"B">>,
                                    !.playback_history = <<"A">>,
                                    !.current_track_url = "A",
                                    !.clock = StartedClock(0)]
             ELSE NewPlayer]
  /\ vc = "connected"
  /\ ap = "playing"
  /\ tasks = [t \in Slots |->
               IF t = 1
                 THEN [NoTask EXCEPT !.kind = "play_command",
                                     !.pc = "pt_panel", !.url = "A",
                                     !.vcl = "live", !.obj = 1]
                 ELSE NoTask]
  /\ plays = 1
  /\ presses = 0
  /\ lastStop = NoStop
  /\ reply = NoReply
  /\ now = 0
  /\ srcpos = -1
  /\ reading = NoReading
  /\ pausedFor = 0
  /\ NoHandler
  /\ lostVoice = "no"
  /\ NoGuilds
  /\ loops = [l \in LoopSlots |->
               IF l = 1
                 THEN [NoLoop EXCEPT !.pc = "up_check", !.obj = 1,
                                     !.handle = TRUE]
                 ELSE NoLoop]
  /\ pnl = {}
  /\ NoResolver

\* The step that leaves the session, the update_progress tasks and the live
\* panels as x says; a panel whose GuildPlayer is gone is no player's panel.
PanelApply(x) ==
  /\ Apply([x.s EXCEPT !.held = Held(x.loops)])
  /\ loops' = x.loops
  /\ pnl' = {o \in x.pnl :
               \/ o = players'
               \/ o \in Held(x.loops)
               \/ \E t \in Slots : tasks'[t].obj = o}
\* A handler step that starts or ends no update_progress task and sends or
\* deletes no panel.
PanelSession(s) == \E x \in {Panel(s, loops, pnl)} : PanelApply(x)
PanelInternal ==
  UNCHANGED <<plays, presses>> /\ reply' = NoReply /\ Timeless /\ Quietly
\* play_track's channel.send of the panel returned or raised.
PnlPanel(t, ok) ==
  /\ At(t, "pt_panel")
  /\ \E x \in {Panel(PlayTrackPanel(St, t, ok), loops,
                      IF ok THEN pnl \cup {tasks[t].obj} ELSE pnl)} :
       PanelApply(x)
  /\ PanelInternal
\* play_track's resolver returned; a stream that starts gets its
\* update_progress task.
PnlExtracted(t, res) ==
  /\ At(t, "pt_extract")
  /\ StreamStarts(St, t, res)
       => \E l \in LoopSlots : Cancelled(loops, tasks[t].obj)[l].pc = "free"
  /\ \E x \in {Panel(PlayTrackExtracted(St, t, res),
                      IF StreamStarts(St, t, res)
                        THEN StartProgress(loops, tasks[t].obj) ELSE loops,
                      pnl)} : PanelApply(x)
  /\ PanelInternal

\* update_progress wakes from its sleep, or starts.
DoProgress(l) ==
  /\ loops[l].pc = "up_check"
  /\ \E x \in {ProgressHead(Panel(St, loops, pnl), l, srcpos)} : PanelApply(x)
  /\ PanelInternal
\* The outcomes of a request on player o's panel: NotFound exactly when the
\* message is gone.
PanelOutcomes(o) ==
  IF o \in pnl THEN {"ok", "forbidden", "error"} ELSE {"notfound", "error"}
DoFetched(l, out) ==
  /\ loops[l].pc = "up_fetch"
  /\ out \in PanelOutcomes(loops[l].obj) \ {"forbidden"}
  /\ \E x \in {ProgressFetched(Panel(St, loops, pnl), l, out)} : PanelApply(x)
  /\ PanelInternal
DoEdited(l, out) ==
  /\ loops[l].pc = "up_edit"
  /\ out \in PanelOutcomes(loops[l].obj)
  /\ \E x \in {ProgressEdited(Panel(St, loops, pnl), l, out)} : PanelApply(x)
  /\ PanelInternal
DoSent(l, ok) ==
  /\ loops[l].pc \in {"up_send", "up_send2"}
  /\ \E x \in {ProgressSent(Panel(St, loops, pnl), l, ok, srcpos)} :
       PanelApply(x)
  /\ PanelInternal
\* The buttons and the playback steps with the update_progress tasks; the
\* panel can be deleted by a user.
PanelNext ==
  \/ \E iv \in BOOLEAN :
       /\ Command /\ reply' = Pressed("play_pause", PlayPauseReply(St))
       /\ Timeless /\ Quietly
       /\ PanelSession(PlayPauseButton(St, iv))
  \/ /\ Command /\ reply' = Pressed("skip", SkipReply(St)) /\ Timeless /\ Quietly
     /\ PanelSession(SkipButton(St))
  \/ ap = "playing" /\ PanelSession(StreamEnd(St)) /\ PanelInternal
  \/ \E t \in Slots :
       \/ \E iv \in BOOLEAN :
            \/ At(t, "cb") /\ PanelSession(PlayNext(St, t, iv)) /\ PanelInternal
            \* play_track has deleted the old panel
            \/ /\ At(t, "pt_del")
               /\ \E x \in {Panel(PlayTrackDeleted(St, t, iv), loops,
                                   pnl \ {tasks[t].obj})} : PanelApply(x)
               /\ PanelInternal
            \/ PnlPanel(t, iv)
       \/ /\ At(t, "pn_sleep")
          /\ PanelSession(PlayNextTimer(St, t))
          /\ PanelInternal
       \/ /\ At(t, "pn_disc")
          /\ PanelSession(PlayNextDisconnected(St, t))
          /\ PanelInternal
       \/ \E res \in {"ok", "fail", "nosrc"} : PnlExtracted(t, res)
  \/ \E l \in LoopSlots :
       \/ DoProgress(l)
       \/ \E out \in {"ok", "notfound", "forbidden", "error"} :
            \/ DoFetched(l, out)
            \/ DoEdited(l, out)
       \/ \E ok \in BOOLEAN : DoSent(l, ok)
  \/ \E o \in pnl :
       /\ pnl' = pnl \ {o}
       /\ UNCHANGED <<players, P, vc, ap, tasks, lastStop, lostVoice, loops>>
       /\ PanelInternal

SpecPanel == PanelInit /\ [][PanelNext]_vars

\* ---------------------------------------------------------------- restart
\* A plays with its panel posted and its update_progress task asleep; the
\* session can be stopped and a second play request can follow.  Every request
\* on a panel succeeds unless the panel is gone.
RestartInit ==
  /\ players = 1
  /\ P = [o \in Objs |->
           IF o = 1
             THEN [NewPlayer EXCEPT !.playback_history = <<"A">>,
                                    !.current_track_url = "A",
                                    !.player_message = TRUE,
                                    !.clock = StartedClock(0)]
             ELSE NewPlayer]
  /\ vc = "connected"
  /\ ap = "playing"
  /\ tasks = [t \in Slots |-> NoTask]
  /\ plays = 1
  /\ presses = 0
  /\ lastStop = NoStop
  /\ reply = NoReply
  /\ now = 0
  /\ srcpos = -1
  /\ reading = NoReading
  /\ pausedFor = 0
  /\ NoHandler
  /\ lostVoice = "no"
  /\ NoGuilds
  /\ loops = [l \in LoopSlots |->
               IF l = 1
                 THEN [NoLoop EXCEPT !.pc = "up_check", !.obj = 1,
                                     !.handle = TRUE]
                 ELSE NoLoop]
  /\ pnl = {1}
  /\ NoResolver

RestartNext ==
  \/ \E u \in Tracks :
       /\ plays < MaxPlays
       /\ plays + presses < MaxCmds
       /\ TrackNo[u] <= plays + 1
       /\ plays' = plays + 1
       /\ presses' = presses
       /\ reply' = NoReply
       /\ Timeless
       /\ Quietly
       /\ PanelSession(PlayCommandStart(St, u))
  \/ /\ Command /\ reply' = Pressed("stop", StopReply(St)) /\ Timeless /\ Quietly
     /\ PanelSession(StopButton(St))
  \/ ap = "playing" /\ PanelSession(StreamEnd(St)) /\ PanelInternal
  \/ \E t \in Slots :
       \/ \E iv \in BOOLEAN :
            \/ /\ At(t, "pc_search")
               /\ PanelSession(PlayCommandDecide(St, t, iv))
               /\ PanelInternal
            \/ At(t, "cb") /\ PanelSession(PlayNext(St, t, iv)) /\ PanelInternal
            \* play_track has deleted the old panel
            \/ /\ At(t, "pt_del")
               /\ \E x \in {Panel(PlayTrackDeleted(St, t, iv), loops,
                                   pnl \ {tasks[t].obj})} : PanelApply(x)
               /\ PanelInternal
            \/ /\ At(t, "pt_conn")
               /\ PanelSession(PlayTrackConnected(St, t, iv))
               /\ PanelInternal
            \/ PnlPanel(t, iv)
       \/ /\ At(t, "pn_sleep")
          /\ PanelSession(PlayNextTimer(St, t))
          /\ PanelInternal
       \/ /\ At(t, "pn_disc")
          /\ PanelSession(PlayNextDisconnected(St, t))
          /\ PanelInternal
       \/ /\ At(t, "stop_disc")
          /\ PanelSession(StopDisconnected(St, t))
          /\ PanelInternal
       \* stop_button has deleted the panel
       \/ /\ At(t, "stop_del")
          /\ \E x \in {Panel(StopPop(St, t), loops, pnl \ {tasks[t].obj})} :
               PanelApply(x)
          /\ PanelInternal
       \/ \E res \in {"ok", "fail", "nosrc"} : PnlExtracted(t, res)
  \/ \E l \in LoopSlots :
       \/ DoProgress(l)
       \/ \E out \in {"ok", "notfound"} :
            \/ DoFetched(l, out)
            \/ DoEdited(l, out)
       \/ DoSent(l, TRUE)

SpecRestart == RestartInit /\ [][RestartNext]_vars

\* ---------------------------------------------------------------- resolution
\* play_command, try_extract_info(search_query): ydl_opts holds the cookiefile
\* whenever cookies are available.  After the last strategy has failed the
\* error is sent and play_command returns.
TrySearch(r, out) ==
  LET r1 == [r EXCEPT !.tries = Append(r.tries, [cred |-> r.cookies, out |-> out])]
  IN IF out = "ok" THEN [r1 EXCEPT !.stage = "track"]
     ELSE IF Len(r1.tries) >= MaxStrategies
       THEN [r1 EXCEPT !.stage = "error",
                       !.err = "Error extracting video info"]
     ELSE r1

\* play_track, try_extract_without_cookies: the cookiefile is removed from
\* the options.  out is "ok", "empty" (no info), "restricted" (the error names
\* an age or privacy restriction) or "error" (any other exception, re-raised
\* and caught by the caller): without info the video's status is probed.
TryWithoutCookies(r, out) ==
  LET r1 == [r EXCEPT !.tries = Append(r.tries, [cred |-> FALSE, out |-> out])]
  IN [r1 EXCEPT !.stage = IF out = "ok" THEN "done" ELSE "probe"]

\* play_track, "check if it's a cookie-required error": extract_info with the
\* global ydl_opts (no cookiefile) and process=False.  out is "raises",
\* "nodict", "restricted" (age_limit or private) or "open".
TryBasicInfo(r, out) ==
  LET r1 == [r EXCEPT !.tries = Append(r.tries, [cred |-> FALSE, out |-> out])]
  IN IF out = "restricted" /\ r.cookies THEN [r1 EXCEPT !.stage = "retry"]
     ELSE [r1 EXCEPT !.stage = "error",
                     !.err = IF out = "restricted"
                               THEN "Could not access restricted content"
                             ELSE IF out = "raises"
                               THEN "Error processing video"
                             ELSE "Could not extract video information"]

\* play_track, try_extract_with_cookies.
TryWithCookies(r, ok) ==
  LET r1 == [r EXCEPT !.tries =
                        Append(r.tries, [cred |-> TRUE,
                                         out |-> IF ok THEN "ok" ELSE "error"])]
  IN IF ok THEN [r1 EXCEPT !.stage = "done"]
     ELSE [r1 EXCEPT !.stage = "error",
                     !.err = "Could not access restricted content"]

\* The state after "!play A" in an idle guild, with or without cookies.
ResolveInit ==
  /\ players = 1
  /\ P = [o \in Objs |-> NewPlayer]
  /\ vc = "none"
  /\ ap = "none"
  /\ tasks = [t \in Slots |->
               IF t = 1
                 THEN [NoTask EXCEPT !.kind = "play_command",
                                     !.pc = "pc_search", !.url = "A", !.obj = 1]
                 ELSE NoTask]
  /\ plays = 1
  /\ presses = 0
  /\ lastStop = NoStop
  /\ reply = NoReply
  /\ now = 0
  /\ srcpos = -1
  /\ reading = NoReading
  /\ pausedFor = 0
  /\ NoHandler
  /\ lostVoice = "no"
  /\ NoGuilds
  /\ NoRefresh
  /\ rsl \in {[NoAttempts EXCEPT !.cookies = c, !.stage = "search"] :
                c \in BOOLEAN}

\* A step of the load that made one yt-dlp call.
Resolving ==
  /\ UNCHANGED <<plays, presses, mh, chan, sent, guilds, loops, pnl>>
  /\ reply' = NoReply
  /\ Timeless
\* play_track after the resolution: with info the stream is started, without
\* it the ValueError ends the coroutine.
AfterResolution(t, r) ==
  IF r.stage = "done" THEN Apply(PlayTrackExtracted(St, t, "ok"))
  ELSE IF r.stage = "error" THEN Apply(PlayTrackExtracted(St, t, "fail"))
  ELSE UNCHANGED <<players, P, vc, ap, tasks, lastStop, lostVoice>>

\* One load: the search strategies of play_command, play_track up to its
\* resolution, the three yt-dlp calls of the resolution, the panel.
ResolveNext ==
  \E t \in Slots :
    \/ \E ok \in BOOLEAN :
         \* one search strategy of play_command returned or raised
         \/ \E iv \in BOOLEAN, r \in {TrySearch(rsl, IF ok THEN "ok" ELSE "error")} :
              /\ At(t, "pc_search")
              /\ rsl.stage = "search"
              /\ rsl' = r
              /\ IF r.stage = "track"
                   THEN Apply(PlayCommandDecide(St, t, iv))
                 ELSE IF r.stage = "error" THEN Apply(Finish(St, t))
                 ELSE UNCHANGED <<players, P, vc, ap, tasks, lastStop, lostVoice>>
              /\ Resolving
         \/ DoConnected(t, ok)
         \/ \E r \in {TryWithCookies(rsl, ok)} :
              /\ At(t, "pt_extract")
              /\ rsl.stage = "retry"
              /\ rsl' = r
              /\ AfterResolution(t, r)
              /\ Resolving
         \/ DoPanel(t, ok)
    \/ \E out \in {"ok", "empty", "restricted", "error"} :
       \E r \in {TryWithoutCookies(rsl, out)} :
         /\ At(t, "pt_extract")
         /\ rsl.stage = "track"
         /\ rsl' = r
         /\ AfterResolution(t, r)
         /\ Resolving
    \/ \E out \in {"raises", "nodict", "restricted", "open"} :
       \E r \in {TryBasicInfo(rsl, out)} :
         /\ At(t, "pt_extract")
         /\ rsl.stage = "probe"
         /\ rsl' = r
         /\ AfterResolution(t, r)
         /\ Resolving

SpecResolve == ResolveInit /\ [][ResolveNext]_vars

\* ---------------------------------------------------------------- loop Queue
\* A plays with loop mode Queue and its panel posted; nothing, B, or B and C
\* are queued; the 180 s sleep of an earlier play_next (the queue had
\* finished before A was requested) may still be pending.  No command
\* follows and every load succeeds.
LoopInit ==
  /\ players = 1
  /\ \E q \in {<<>>, <<"B">>, <<"B", "C">>} :
       P = [o \in Objs |->
              IF o = 1
                THEN [NewPlayer EXCEPT !.queue = q,
                                       !.playback_history = <<"A">>,
                                       !.loop_mode = 2,
                                       !.current_track_url = "A",
                                       !.player_message = TRUE,
                                       !.clock = StartedClock(0)]
                ELSE NewPlayer]
  /\ vc = "connected"
  /\ ap = "playing"
  /\ \E timer \in BOOLEAN :
       tasks = [t \in Slots |->
                  IF t = 1 /\ timer
                    THEN [NoTask EXCEPT !.kind = "play_next",
                                        !.pc = "pn_sleep", !.obj = 1]
                    ELSE NoTask]
  /\ plays = MaxPlays
  /\ presses = MaxPresses
  /\ lastStop = NoStop
  /\ reply = NoReply
  /\ now = 0
  /\ srcpos = -1
  /\ reading = NoReading
  /\ pausedFor = 0
  /\ NoHandler
  /\ lostVoice = "no"
  /\ NoGuilds
  /\ NoRefresh
  /\ NoResolver

LoopNext ==
  \/ DoStreamEnd
  \/ \E t \in Slots :
       \/ \E iv \in BOOLEAN :
            \/ DoPlayNext(t, iv)
            \/ DoDeleted(t, iv)
            \/ DoPanel(t, iv)
       \/ DoExtracted(t, "ok")
       \/ DoTimer(t)
       \/ DoTimerDisconnected(t)

\* Every stream ends, and every coroutine goes on after its await.
SpecLoop == LoopInit /\ [][LoopNext]_vars /\ WF_vars(LoopNext)

\* ---------------------------------------------------------------- two guilds
\* The bot plays in two guilds: A in g1, C in g2.
GuildsInit ==
  /\ players = 0
  /\ P = [o \in Objs |-> NewPlayer]
  /\ vc = "none"
  /\ ap = "none"
  /\ tasks = [t \in Slots |-> NoTask]
  /\ plays = MaxPlays
  /\ presses = 0
  /\ lastStop = NoStop
  /\ reply = NoReply
  /\ now = 0
  /\ srcpos = -1
  /\ reading = NoReading
  /\ pausedFor = 0
  /\ NoHandler
  /\ lostVoice = "no"
  /\ guilds = [g \in Guilds |->
                IF g = "g1" THEN Playing("A", <<>>) ELSE Playing("C", <<>>)]
  /\ NoRefresh
  /\ NoResolver

\* Guild g's handler leaves state s.
GuildApply(g, s) ==
  \E x \in {s} :
    /\ ~x.ovf
    /\ \E y \in {Settled(x, rk) :
                   rk \in {Rank([t \in Slots |-> Key(x.tasks[t])])}} :
         guilds' = Keyed(guilds, g, y)
    /\ UNCHANGED <<players, P, vc, ap, tasks, plays, lastStop, reply,
                   lostVoice, mh, chan, sent, loops, pnl, rsl>>
    /\ Timeless
\* A button of a panel is pressed.
GuildPress == presses < MaxPresses /\ presses' = presses + 1
\* Coroutine t of guild g resumes at suspension point pc.
GuildResume(g, t, pc) == guilds[g].tasks[t].pc = pc /\ presses' = presses

GuildPrevious(g) ==
  /\ GuildPress
  /\ GuildApply(g, PreviousButton(GuildSt(guilds, g, now)))
GuildPlayPause(g) ==
  \E iv \in BOOLEAN :
    /\ GuildPress
    /\ GuildApply(g, PlayPauseButton(GuildSt(guilds, g, now), iv))
GuildSkip(g) ==
  /\ GuildPress
  /\ GuildApply(g, SkipButton(GuildSt(guilds, g, now)))
GuildLoopButton(g) ==
  /\ GuildPress
  /\ GuildApply(g, LoopButton(GuildSt(guilds, g, now)))
GuildStop(g) ==
  /\ GuildPress
  /\ GuildApply(g, StopButton(GuildSt(guilds, g, now)))
GuildStreamEnd(g) ==
  /\ guilds[g].ap = "playing"
  /\ presses' = presses
  /\ GuildApply(g, StreamEnd(GuildSt(guilds, g, now)))
GuildPlayNext(g, t, iv) ==
  /\ GuildResume(g, t, "cb")
  /\ GuildApply(g, PlayNext(GuildSt(guilds, g, now), t, iv))
GuildTimer(g, t) ==
  /\ GuildResume(g, t, "pn_sleep")
  /\ GuildApply(g, PlayNextTimer(GuildSt(guilds, g, now), t))
GuildTimerDisconnected(g, t) ==
  /\ GuildResume(g, t, "pn_disc")
  /\ GuildApply(g, PlayNextDisconnected(GuildSt(guilds, g, now), t))
GuildDeleted(g, t, iv) ==
  /\ GuildResume(g, t, "pt_del")
  /\ GuildApply(g, PlayTrackDeleted(GuildSt(guilds, g, now), t, iv))
GuildConnected(g, t, ok) ==
  /\ GuildResume(g, t, "pt_conn")
  /\ GuildApply(g, PlayTrackConnected(GuildSt(guilds, g, now), t, ok))
GuildExtracted(g, t, res) ==
  /\ GuildResume(g, t, "pt_extract")
  /\ GuildApply(g, PlayTrackExtracted(GuildSt(guilds, g, now), t, res))
GuildPanel(g, t, ok) ==
  /\ GuildResume(g, t, "pt_panel")
  /\ GuildApply(g, PlayTrackPanel(GuildSt(guilds, g, now), t, ok))
GuildStopDisconnected(g, t) ==
  /\ GuildResume(g, t, "stop_disc")
  /\ GuildApply(g, StopDisconnected(GuildSt(guilds, g, now), t))
GuildStopDeleted(g, t) ==
  /\ GuildResume(g, t, "stop_del")
  /\ GuildApply(g, StopPop(GuildSt(guilds, g, now), t))

\* A command, completion callback or timer of guild g.
GuildStep(g) ==
  \/ GuildPrevious(g)
  \/ GuildPlayPause(g)
  \/ GuildSkip(g)
  \/ GuildLoopButton(g)
  \/ GuildStop(g)
  \/ GuildStreamEnd(g)
  \/ \E t \in Slots :
       \/ \E iv \in BOOLEAN :
            \/ GuildPlayNext(g, t, iv)
            \/ GuildDeleted(g, t, iv)
            \/ GuildConnected(g, t, iv)
            \/ GuildPanel(g, t, iv)
       \/ GuildTimer(g, t)
       \/ GuildTimerDisconnected(g, t)
       \/ GuildStopDisconnected(g, t)
       \/ GuildStopDeleted(g, t)
       \/ \E res \in {"ok", "fail", "nosrc"} : GuildExtracted(g, t, res)

GuildsNext == \E g \in Guilds : GuildStep(g)

SpecGuilds == GuildsInit /\ [][GuildsNext]_vars

\* ---------------------------------------------------------------- MessageHandler
\* A call of the handler in progress: the handler h, the channel ch, whether
\* an exception is propagating (exc), whether the call has returned (ret),
\* and the counts of failed operations and of edited messages.
Run(h, ch) ==
  [h |-> h, ch |-> ch, exc |-> FALSE, ret |-> FALSE, failed |-> 0,
   edited |-> 0]

\* _log_message
Log(r, entry) ==
  [r EXCEPT !.h.message_history = Append(r.h.message_history, entry)]

\* self.message = await self.interaction.channel.send(...): o is "ok" or
\* "error"; on an error the assignment does not happen and the exception
\* propagates.
ChannelSend(r, o) ==
  IF o = "ok"
    THEN [r EXCEPT !.ch.created = r.ch.created + 1,
                   !.ch.alive = r.ch.alive \cup {MsgNames[r.ch.created + 1]},
                   !.h.message = MsgNames[r.ch.created + 1]]
    ELSE [r EXCEPT !.exc = TRUE, !.failed = r.failed + 1]

\* ref.edit(content=...): the un-awaited coroutine that initialize stores has
\* no edit attribute (AttributeError), a deleted message raises NotFound, an
\* existing one is edited unless the request fails (o).
EditOutcome(ch, ref, o) ==
  IF ref = "coroutine" THEN "error"
  ELSE IF ref \notin ch.alive THEN "notfound"
  ELSE o

\* interaction.followup.send succeeding: the first followup of a deferred
\* interaction fills the acknowledgment, any other is a new message; the
\* result is not stored in the handler.
Followup(r) ==
  IF r.ch.ack # None
    THEN [r EXCEPT !.ch.ack = None, !.edited = r.edited + 1]
    ELSE [r EXCEPT !.ch.created = r.ch.created + 1,
                   !.ch.alive = r.ch.alive \cup {MsgNames[r.ch.created + 1]}]

\* Mutant of Initialize: a successful defer also sets self.message.
Initialize_SetsBoth(h, ch, defer, cs) ==
  LET r1 == Log(Run(h, ch), "Initialize Attempting")
      ack == MsgNames[ch.created + 1]
      fb == ChannelSend(
              Log([r1 EXCEPT !.failed = 1, !.h.last_error = (defer = "error")],
                  IF defer = "notfound" THEN "Initialize Failed"
                                        ELSE "Initialize Error"), cs)
  IN IF defer = "ok"
       THEN Log([r1 EXCEPT !.h.initialized = TRUE,
                           !.h.thinking_message = "coroutine",
                           !.h.message = ack,
                           !.ch.created = ch.created + 1,
                           !.ch.alive = ch.alive \cup {ack},
                           !.ch.ack = ack], "Initialize Success")
     ELSE IF fb.exc THEN fb
     ELSE Log([fb EXCEPT !.h.initialized = TRUE],
              IF defer = "notfound" THEN "Initialize Fallback"
                                    ELSE "Initialize Recovery")

\* MessageHandler.initialize: defer is the outcome of response.defer ("ok",
\* "notfound": the interaction expired, "error"), cs that of the fallback
\* channel.send.  thinking_message becomes the coroutine object returned by
\* the un-awaited interaction.original_response().
Initialize(h, ch, defer, cs) ==
  LET r1 == Log(Run(h, ch), "Initialize Attempting")
      ack == MsgNames[ch.created + 1]
      fb == ChannelSend(
              Log([r1 EXCEPT !.failed = 1, !.h.last_error = (defer = "error")],
                  IF defer = "notfound" THEN "Initialize Failed"
                                        ELSE "Initialize Error"), cs)
  IN IF defer = "ok"
       THEN Log([r1 EXCEPT !.h.initialized = TRUE,
                           !.h.thinking_message = "coroutine",
                           !.ch.created = ch.created + 1,
                           !.ch.alive = ch.alive \cup {ack},
                           !.ch.ack = ack], "Initialize Success")
     ELSE IF fb.exc THEN fb
     ELSE Log([fb EXCEPT !.h.initialized = TRUE],
              IF defer = "notfound" THEN "Initialize Fallback"
                                    ELSE "Initialize Recovery")

\* send: "First try to update the thinking message if it exists".
SendThinking(r, ed) ==
  LET r1 == Log(r, "Send Updating")
      out == EditOutcome(r.ch, r.h.thinking_message, ed)
  IN IF r.h.thinking_message = None THEN r
     ELSE IF out = "ok"
       THEN Log([r1 EXCEPT !.h.message = r.h.thinking_message,
                           !.edited = r.edited + 1, !.ret = TRUE],
                "Send Success")
     ELSE Log([r1 EXCEPT !.h.thinking_message = None,
                         !.failed = r.failed + 1],
              IF out = "notfound" THEN "Send Failed" ELSE "Send Error")

\* send: "If we have an existing message, try to update it"; only NotFound
\* is caught here.
SendMessage(r, ed, cs) ==
  LET r1 == Log(r, "Send Updating")
      out == EditOutcome(r.ch, r.h.message, ed)
      r2 == ChannelSend(Log([r1 EXCEPT !.failed = r.failed + 1],
                            "Send Failed"), cs)
  IN IF out = "ok"
       THEN Log([r1 EXCEPT !.edited = r.edited + 1], "Send Success")
     ELSE IF out = "notfound"
       THEN IF r2.exc THEN r2 ELSE Log(r2, "Send Success")
     ELSE [r1 EXCEPT !.exc = TRUE, !.failed = r.failed + 1]

\* send: "If we're initialized but have no message, try followup".
SendFollowup(r, fu, cs) ==
  LET r1 == Log(r, "Send Attempting")
      r2 == ChannelSend(
              Log([r1 EXCEPT !.failed = r.failed + 1,
                             !.h.last_send_error =
                                (fu = "error") \/ r.h.last_send_error],
                  IF fu = "notfound" THEN "Send Failed" ELSE "Send Error"),
              cs)
  IN IF fu = "ok" THEN Log(Followup(r1), "Send Success")
     ELSE IF r2.exc THEN r2
     ELSE Log(r2, IF fu = "notfound" THEN "Send Fallback" ELSE "Send Recovery")

\* send: "If we're not initialized, send a new message".
SendFirst(r, cs) ==
  LET r2 == ChannelSend(Log(r, "Send Initial"), cs)
  IN IF r2.exc THEN r2
     ELSE Log([r2 EXCEPT !.h.initialized = TRUE], "Send Success")

\* The body of send's outer try.
SendTry(r, content, ed, fu, cs) ==
  LET r1 == [r EXCEPT !.h.last_send_attempt = content]
      r2 == IF content = "" THEN Log(r1, "Send Error") ELSE r1
      r3 == SendThinking(r2, ed)
  IN IF r3.ret THEN r3
     ELSE IF r3.h.message # None THEN SendMessage(r3, ed, cs)
     ELSE IF r3.h.initialized THEN SendFollowup(r3, fu, cs)
     ELSE SendFirst(r3, cs)

\* Mutant of SendRecover: the last channel.send is not guarded.
SendRecover_Reraises(r, cs) ==
  LET r1 == Log([r EXCEPT !.exc = FALSE, !.h.last_send_error = TRUE],
                "Send Error")
      r2 == ChannelSend(r1, cs)
  IN IF r1.h.message # None THEN r1
     ELSE IF r2.exc THEN r2
     ELSE Log([r2 EXCEPT !.h.initialized = TRUE], "Send Recovery")

\* send's outer `except Exception`.
SendRecover(r, cs) ==
  LET r1 == Log([r EXCEPT !.exc = FALSE, !.h.last_send_error = TRUE],
                "Send Error")
      r2 == ChannelSend(r1, cs)
  IN IF r1.h.message # None THEN r1
     ELSE IF r2.exc THEN Log([r2 EXCEPT !.exc = FALSE], "Send Critical")
     ELSE Log([r2 EXCEPT !.h.initialized = TRUE], "Send Recovery")

\* MessageHandler.send(content): ed, fu, cs1 and cs2 are the outcomes of the
\* edit, of followup.send, and of the channel.send of the try and of the
\* except.
Send(h, ch, content, ed, fu, cs1, cs2) ==
  LET r == SendTry(Run(h, ch), content, ed, fu, cs1)
  IN IF r.exc THEN SendRecover(r, cs2) ELSE r

\* The entries of message_history that record a failure.
FailureLogs(hist) ==
  Cardinality({i \in DOMAIN hist :
                 hist[i] \in {"Initialize Failed", "Initialize Error",
                              "Send Failed", "Send Error", "Send Critical"}})

\* One play command's handler, just constructed; the session plays no part.
MsgInit ==
  /\ players = 0
  /\ P = [o \in Objs |-> NewPlayer]
  /\ vc = "none"
  /\ ap = "none"
  /\ tasks = [t \in Slots |-> NoTask]
  /\ plays = 1
  /\ presses = 0
  /\ lastStop = NoStop
  /\ reply = NoReply
  /\ now = 0
  /\ srcpos = -1
  /\ reading = NoReading
  /\ pausedFor = 0
  /\ NoHandler
  /\ lostVoice = "no"
  /\ NoGuilds
  /\ NoRefresh
  /\ NoResolver

Sessionless ==
  UNCHANGED <<players, P, vc, ap, tasks, plays, presses, lastStop, reply,
              lostVoice, guilds, loops, pnl, rsl>>

Called(op, r) ==
  /\ mh' = r.h
  /\ chan' = r.ch
  /\ sent' = [op |-> op, raised |-> r.exc, failed |-> r.failed,
              edited |-> r.edited,
              n |-> IF op = "send" THEN sent.n + 1 ELSE sent.n]
  /\ Sessionless
  /\ Timeless

\* play_command: await msg_handler.initialize(), once, before any send.
MhInitialize(defer, cs) ==
  /\ sent.op = "new"
  /\ Called("initialize", Initialize(mh, chan, defer, cs))

\* play_command or play_track: await msg_handler.send(content).
MhSend(content, ed, fu, cs1, cs2) ==
  /\ sent.op # "new"
  /\ sent.n < MaxSends
  /\ chan.created < MaxMsgs
  /\ Called("send", Send(mh, chan, content, ed, fu, cs1, cs2))

\* Somebody deletes one of the handler's messages.
MhDelete(m) ==
  /\ m \in chan.alive
  /\ m # chan.ack
  /\ chan' = [chan EXCEPT !.alive = chan.alive \ {m}]
  /\ UNCHANGED <<mh, sent>>
  /\ Sessionless
  /\ Timeless

Outcomes == {"ok", "error"}
MsgNext ==
  \/ \E defer \in {"ok", "notfound", "error"}, cs \in Outcomes :
       MhInitialize(defer, cs)
  \/ \E content \in {"", "x"}, ed \in Outcomes,
        fu \in {"ok", "notfound", "error"}, cs1 \in Outcomes,
        cs2 \in Outcomes :
       MhSend(content, ed, fu, cs1, cs2)
  \/ \E m \in chan.alive : MhDelete(m)

SpecMsg == MsgInit /\ [][MsgNext]_vars

\* ---------------------------------------------------------------- session view
\* The guild's session as the registry shows it.
GuildQueue == IF players = 0 THEN <<>> ELSE P[players].queue
GuildCurrent == IF players = 0 THEN None ELSE P[players].current_track_url
GuildHistory == IF players = 0 THEN <<>> ELSE P[players].playback_history
GuildLoop == IF players = 0 THEN 0 ELSE P[players].loop_mode
GuildClock == IF players = 0 THEN NewPlayer.clock ELSE P[players].clock
\* What get_elapsed_time would return now.
GuildElapsed ==
  GetElapsedTime(GuildClock, now, vc # "none" /\ ap = "playing", srcpos).value
\* The completion callbacks scheduled and not yet run.
Callbacks(tk) == {t \in Slots : tk[t].kind = "play_next" /\ tk[t].pc = "cb"}
\* No coroutine is between two statements that change the session.
Quiet == \A t \in Slots : tasks[t].pc \in {"free", "pn_sleep", "pc_search"}
\* A stream is playing or paused on the guild's voice connection.
StreamActive == vc = "connected" /\ ap \in {"playing", "paused"}
\* Idle: nothing current and no stream.  Loading: play_track is running and
\* has not started its stream.
SessionIdle == GuildCurrent = None /\ ~StreamActive
SessionLoading == \E t \in Slots : tasks[t].pc \in LoadPcs
\* After the step some coroutine of kind k is loading track u, or u is current.
Loads(k, u) ==
  \/ \E t \in Slots :
       tasks'[t].kind = k /\ tasks'[t].url = u /\ tasks'[t].pc \in LoadPcs
  \/ players' # 0 /\ P'[players'].current_track_url = u
\* Coroutine t runs play_track's "Set current track info" in this step.
SetsCurrent(t, iv) ==
  \/ DoSlept(t, iv)
  \/ DoDeleted(t, iv) /\ ~(tasks[t].vcl = "live" /\ ap = "playing")

\* ---------------------------------------------------------------- claims
\* C1: a play request on an Idle session starts loading the requested track at
\* once; in every other state (Loading, Playing, Paused) it appends the track
\* to the queue tail and leaves the current track unchanged.
C1_EnqueueUnlessIdle ==
  [][\A t \in Slots, iv \in BOOLEAN :
       DoDecide(t, iv) =>
         /\ SessionIdle
              => GuildQueue' = GuildQueue /\ Loads("play_command", tasks[t].url)
         /\ (~SessionIdle /\ (SessionLoading \/ StreamActive))
              => /\ GuildQueue' = Append(GuildQueue, tasks[t].url)
                 /\ GuildCurrent' = GuildCurrent]_vars

\* C2: of two play requests processed concurrently from an Idle session, the
\* second is queued: two play requests are never both inside play_track with
\* neither stream started, each taking itself for the current track.
C2_SecondRequestQueues ==
  \A t1, t2 \in Slots :
    (t1 # t2 /\ tasks[t1].kind = "play_command" /\ tasks[t2].kind = "play_command"
       /\ tasks[t1].url # tasks[t2].url)
      => ~(tasks[t1].pc \in LoadPcs /\ tasks[t2].pc \in LoadPcs)

\* C3: play_next invoked a second time before the track the first invocation
\* dequeued has started its stream is ignored: two invocations never both
\* hold a dequeued track that has not started.
C3_SingleAdvance ==
  \A t1, t2 \in Slots :
    t1 # t2 /\ tasks[t1].kind = "play_next" /\ tasks[t2].kind = "play_next"
      => ~(tasks[t1].pc \in LoadPcs /\ tasks[t2].pc \in LoadPcs)

\* C4: a failed load falls back to advance: once no load, completion callback
\* or stop is in progress, the session has no current track without a stream
\* and no queued track waiting without a stream.
C4_FailureAdvances ==
  (\A t \in Slots : tasks[t].pc \in {"free", "pn_sleep", "pc_search"})
    => /\ GuildCurrent # None => StreamActive
       /\ GuildQueue # <<>> => StreamActive

\* C5: stop is terminal: once a stop_button pressed on a session with no other
\* coroutine running has completed and every coroutine it caused has run, and
\* until a play request arrives, nothing is loaded, the queue is empty and the
\* voice connection is gone, whatever the loop mode.
C5_StopTerminal ==
  (lastStop.done /\ lastStop.quiet /\ \A t \in Slots : tasks[t].kind = "free")
    => vc = "none" /\ GuildCurrent = None /\ GuildQueue = <<>>

C7_AdvanceLoopOff ==
  [][\A t \in Slots, iv \in BOOLEAN :
       /\ (DoPlayNext(t, iv) /\ players # 0 /\ P[players].loop_mode = 0
             /\ P[players].queue # <<>>)
            => /\ players' = players
               /\ P'[players].queue = Tail(P[players].queue)
               /\ Loads("play_next", Head(P[players].queue))
       /\ (SetsCurrent(t, iv) /\ tasks[t].kind = "play_next"
             /\ tasks[t].obj = players /\ players' = players)
            => P'[players].current_track_url = tasks[t].url]_vars

\* Queue [B] behind the played track A, loop Off: B is current, the queue empty.
C7_Witness ==
  \E t \in Slots :
    /\ tasks[t].kind = "play_next" /\ tasks[t].pc = "pt_extract"
    /\ tasks[t].url = "B" /\ tasks[t].obj = players
    /\ P[players].current_track_url = "B" /\ P[players].queue = <<>>
    /\ P[players].loop_mode = 0 /\ P[players].playback_history = <<"A">>

\* C8: play_next with loop mode Track and a current track reloads that track
\* (reinserted at the head and dequeued at once) and leaves the queue as it
\* was.
C8_AdvanceLoopTrack ==
  [][\A t \in Slots, iv \in BOOLEAN :
       (DoPlayNext(t, iv) /\ players # 0 /\ P[players].loop_mode = 1
          /\ P[players].current_track_url # None)
         => /\ players' = players
            /\ P'[players].queue = P[players].queue
            /\ Loads("play_next", P[players].current_track_url)]_vars

\* The only track ever requested, A, is loaded again by play_next.
C8_Witness ==
  \E t \in Slots :
    /\ tasks[t].kind = "play_next" /\ tasks[t].pc = "pt_extract"
    /\ tasks[t].url = "A" /\ tasks[t].obj = players /\ plays = 1
    /\ P[players].current_track_url = "A" /\ P[players].queue = <<>>
    /\ P[players].loop_mode = 1 /\ P[players].playback_history = <<"A">>

\* C9: play_next with loop mode Queue and a current track appends it at the
\* tail; the former head is loaded and the other tracks keep their order (with
\* an empty queue the finished track itself is loaded again).
C9_AdvanceLoopQueue ==
  [][\A t \in Slots, iv \in BOOLEAN :
       (DoPlayNext(t, iv) /\ players # 0 /\ P[players].loop_mode = 2
          /\ P[players].current_track_url # None)
         => /\ players' = players
            /\ IF P[players].queue # <<>>
                 THEN /\ P'[players].queue =
                           Append(Tail(P[players].queue),
                                  P[players].current_track_url)
                      /\ Loads("play_next", Head(P[players].queue))
                 ELSE /\ P'[players].queue = <<>>
                      /\ Loads("play_next", P[players].current_track_url)]_vars

\* A finished with B queued, loop Queue: B is current and A is the queue.
C9_Witness ==
  \E t \in Slots :
    /\ tasks[t].kind = "play_next" /\ tasks[t].pc = "pt_extract"
    /\ tasks[t].url = "B" /\ tasks[t].obj = players /\ plays = 2
    /\ P[players].current_track_url = "B" /\ P[players].queue = <<"A">>
    /\ P[players].loop_mode = 2

\* C10: the completion callback scheduled by a successful previous_button's
\* forced stop loads the track that played before the current one (prev_track,
\* the second entry from the end of the history), in every loop mode.
C10_PreviousLoadsPrior ==
  \A t \in Slots :
    (tasks[t].kind = "play_next" /\ tasks[t].want # None
       /\ tasks[t].pc \in LoadPcs \cup {"pt_panel"})
      => tasks[t].url = tasks[t].want

\* C11: previous_button with at least two history entries, a current track and
\* a voice connection removes exactly the last two history entries and makes
\* the queue [prior, current] followed by the old queue, and the stream is
\* stopped (a live stream schedules its completion callback, which carries the
\* prior track).
C11_PreviousRequeues ==
  [][(DoPrevious /\ players # 0 /\ Len(GuildHistory) >= 2
        /\ GuildCurrent # None /\ vc # "none")
       => /\ players' = players
          /\ GuildQueue' = <<GuildHistory[Len(GuildHistory) - 1], GuildCurrent>>
                              \o GuildQueue
          /\ GuildHistory' = SubSeq(GuildHistory, 1, Len(GuildHistory) - 2)
          /\ GuildCurrent' = GuildCurrent
          /\ ap' = "none"
          /\ reply'.text = "Playing previous track."
          /\ StreamActive =>
                \E t \in Callbacks(tasks') :
                  tasks'[t].want = GuildHistory[Len(GuildHistory) - 1]]_vars
C11_Witness ==
  /\ reply.button = "previous" /\ reply.text = "Playing previous track."
  /\ GuildQueue = <<"A", "B">>
  /\ GuildHistory = <<>>
  /\ GuildCurrent = "B"
  /\ vc = "connected" /\ ap = "none"
  /\ \E t \in Callbacks(tasks) : tasks[t].want = "A"

\* C12: previous_button with fewer than two history entries leaves queue,
\* history, current track, loop mode and stream as they were and replies that
\* there is no previous track.
C12_PreviousNeedsTwo ==
  [][(DoPrevious /\ Len(GuildHistory) < 2)
       => /\ GuildQueue' = GuildQueue
          /\ GuildHistory' = GuildHistory
          /\ GuildCurrent' = GuildCurrent
          /\ GuildLoop' = GuildLoop
          /\ ap' = ap /\ vc' = vc
          /\ reply'.text = "No previous track in history."]_vars
C12_Witness ==
  /\ reply.button = "previous"
  /\ reply.text = "No previous track in history."
  /\ GuildHistory = <<"A">>
  /\ GuildCurrent = "A"
  /\ vc = "connected" /\ ap = "playing"

\* C13: skip_button while a track is Playing or Paused stops the stream,
\* schedules exactly one completion callback (one advance) and replies
\* "Skipped.".
C13_SkipAdvancesOnce ==
  [][(DoSkip /\ StreamActive)
       => /\ ap' = "none"
          /\ Cardinality(Callbacks(tasks')) = Cardinality(Callbacks(tasks)) + 1
          /\ reply'.text = "Skipped."]_vars

\* C14: skip_button with no voice connection, or connected with no stream and
\* an empty queue, replies "Nothing to skip." and changes no session state.
C14_SkipNothing ==
  [][(DoSkip /\ GuildCurrent = None
        /\ (vc = "none" \/ (~StreamActive /\ GuildQueue = <<>>)))
       => /\ reply'.text = "Nothing to skip."
          /\ UNCHANGED <<players, P, vc, ap, tasks>>]_vars

\* C15: play_pause_button turns Playing into Paused and Paused into Playing,
\* the clock's is_paused following, with current track, queue and history
\* unchanged; and while playing, the time-based elapsed time is the time since
\* the start less all the seconds spent paused.
C15_PauseResumeClock ==
  /\ [][ClockPlayPause
          => /\ ap = "playing" => ap' = "paused" /\ GuildClock'.is_paused
             /\ ap = "paused" => ap' = "playing" /\ ~GuildClock'.is_paused
             /\ GuildCurrent' = GuildCurrent
             /\ GuildQueue' = GuildQueue
             /\ GuildHistory' = GuildHistory]_vars
  /\ []((ap = "playing" /\ srcpos <= 0)
          => GuildElapsed = (now - GuildClock.start_time) - pausedFor)
C15_Witness ==
  /\ ap = "playing"
  /\ ~GuildClock.is_paused
  /\ pausedFor = 10
  /\ srcpos = -1
  /\ reading = [value |-> now - 10, at |-> now]
  /\ GuildCurrent = "A"

\* C16: play_pause_button on an Idle session (no current track, no stream)
\* with a non-empty queue dequeues the head and starts loading it.
C16_PlayPauseRecovers ==
  [][(DoPlayPause /\ SessionIdle /\ GuildQueue # <<>>)
       => /\ GuildQueue' = Tail(GuildQueue)
          /\ Loads("play_pause", Head(GuildQueue))]_vars

\* C17: loop_button sets the loop mode to (mode + 1) mod 3 and changes nothing
\* else (current track, queue, history, clock, stream); the loop mode is
\* always 0, 1 or 2.
C17_LoopCycles ==
  /\ [][DoLoop
          => /\ GuildLoop' = (GuildLoop + 1) % 3
             /\ GuildCurrent' = GuildCurrent
             /\ GuildQueue' = GuildQueue
             /\ GuildHistory' = GuildHistory
             /\ GuildClock' = GuildClock
             /\ ap' = ap /\ vc' = vc /\ tasks' = tasks]_vars
  /\ [](\A o \in Objs : P[o].loop_mode \in {0, 1, 2})
C17_Witness ==
  /\ reply.button = "loop"
  /\ GuildLoop = 2
  /\ GuildCurrent = "A"
  /\ GuildHistory = <<"A">>
  /\ vc = "connected" /\ ap = "playing"

\* C18: successive readings of get_elapsed_time of one track are never
\* negative and never decrease, and a reading taken while paused equals the
\* previous reading of the same pause.
C18_ElapsedMonotonic ==
  [][ClockRead
       => /\ reading'.value >= 0
          /\ reading.at # NoTime => reading'.value >= reading.value
          /\ (ap = "paused" /\ reading.at # NoTime
                /\ reading.at >= GuildClock.pause_time)
               => reading'.value = reading.value]_vars

\* C19: a reading of get_elapsed_time that has a position sample less than 5
\* seconds old is the larger of the time-based estimate and the sampled
\* position, and once a sample exists a reading is not below the one before.
C19_SampleIsLowerBound ==
  [][ClockRead
       => /\ (GuildClock'.position_update_time # NoTime
                /\ now - GuildClock'.position_update_time < SampleMaxAge)
               => reading'.value
                    = Max(TimeBased(GuildClock', now), GuildClock'.last_position)
          /\ (GuildClock'.position_update_time # NoTime /\ reading.at # NoTime)
               => reading'.value >= reading.value]_vars

\* C20: whenever no coroutine is in the middle of a transition, a current
\* track is set if and only if a stream is playing or paused.
C20_CurrentIffStream ==
  Quiet => (GuildCurrent # None <=> StreamActive)

\* C21: the queue never contains the current track: in every state reached
\* from a session whose queued tracks differ from the current one and from
\* each other, with no further play request, the current track is not an
\* element of the queue.
C21_QueueExcludesCurrent ==
  GuildCurrent # None => ~InSeq(GuildCurrent, GuildQueue)

\* C22: once stop_button has removed the guild's session from the registry,
\* only a new play request creates an entry again: no other step, and in
\* particular no completion callback running play_next, turns an empty
\* registry entry into a session.
C22_NoRecreation ==
  [][(lastStop.done /\ players = 0 /\ players' # 0) => DoPlayCommand]_vars

\* C24: the inactivity timer of play_next has no effect while a track is
\* current: when the 180 s sleep returns, or the timer's disconnect returns,
\* with a track current that is loading, playing or paused, the voice
\* connection and the registry entry stay as they are.
C24_TimerSparesCurrent ==
  [][\A t \in Slots :
       ((DoTimer(t) \/ DoTimerDisconnected(t))
          /\ GuildCurrent # None /\ (StreamActive \/ SessionLoading))
         => vc' = vc /\ players' = players]_vars

\* C23: when the 180 s sleep of the play_next that made the session Idle
\* returns and the session is still Idle with an empty queue, the teardown
\* runs: the voice connection is closed and the session is removed from the
\* registry, at once or when the timer's disconnect has returned.
C23_InactivityTeardown ==
  [][\A t \in Slots :
       /\ (DoTimer(t) /\ tasks[t].obj = players /\ SessionIdle
             /\ GuildQueue = <<>>)
            => \/ players' = 0 /\ vc' # "connected"
               \/ vc' = "closing" /\ \E u \in Slots : tasks'[u].pc = "pn_disc"
       /\ DoTimerDisconnected(t) => vc' = "none" /\ players' = 0]_vars

\* C25: every button press, in every session state, is answered: the handler
\* passes a message to handle_interaction (at once, or when its awaits have
\* returned); it never ends without a message and never ends in an exception
\* instead of one.
C25_OneMessagePerCommand ==
  [][(DoPrevious \/ DoPlayPause \/ DoSkip \/ DoLoop \/ DoStop)
       => reply'.text \notin {"none", "NameError"}]_vars

C27_SendNeverRaises ==
  [][\A content \in {"", "x"}, ed \in Outcomes,
        fu \in {"ok", "notfound", "error"}, cs1 \in Outcomes,
        cs2 \in Outcomes :
       MhSend(content, ed, fu, cs1, cs2)
         => /\ ~sent'.raised
            /\ FailureLogs(mh'.message_history)
                 - FailureLogs(mh.message_history) >= sent'.failed
            /\ (sent'.failed > 0
                  /\ mh'.message_history[Len(mh'.message_history)]
                       \in {"Send Error", "Send Critical"})
                 => mh'.last_send_error]_vars
\* A send in which the followup, the channel.send and the recovery
\* channel.send all failed.
C27_Witness ==
  /\ sent.op = "send" /\ ~sent.raised /\ sent.failed = 3
  /\ mh.last_send_error /\ mh.message = None
  /\ mh.message_history[Len(mh.message_history)] = "Send Critical"

\* C28: with no operation failing for any other reason than a deleted
\* message, send edits the handler's message while one exists and creates no
\* new one; when none exists it creates one message and adopts it as
\* self.message.
C28_UpdateOrCreate ==
  [][\A content \in {"", "x"} :
       MhSend(content, "ok", "ok", "ok", "ok")
         => IF chan.alive # {}
              THEN chan'.created = chan.created /\ sent'.edited = 1
              ELSE /\ chan'.created = chan.created + 1
                   /\ mh'.message = MsgNames[chan'.created]]_vars

\* C29: when the bot's voice connection is lost, on_voice_state_update makes
\* its reconnection attempt and, the attempt failing, removes the guild's
\* session from the registry; after that, once no coroutine is left running
\* and until the next play request, the guild has no registry entry.
C29_LossTearsDown ==
  /\ [][\A t \in Slots :
          ((DoVoiceUpdate(t) \/ DoVoiceDeleted(t) \/ DoVoiceDisconnected(t))
             /\ lostVoice' = "failed") => players' = 0]_vars
  /\ []((lostVoice = "failed"
           /\ \A t \in Slots : tasks[t].pc \in {"free", "pn_sleep"})
          => players = 0)

C33_HistoryEndsWithCurrent ==
  (Quiet /\ vc = "connected" /\ ap = "playing" /\ GuildCurrent # None
     /\ GuildLoop = 2 /\ presses = 2)
    => /\ GuildHistory # <<>>
       /\ GuildHistory[Len(GuildHistory)] = GuildCurrent

\* C37: with loop mode Off, no stop, and at most one button pressed while the
\* history still holds only the track that played at the start, the queued
\* tracks become current in queue order: B, queued behind A, is not current
\* while A still waits in the queue or in a play_track that has not set it.
C37_FifoOrder ==
  (GuildLoop = 0 /\ lastStop = NoStop /\ presses <= 1
     /\ GuildHistory = <<"C">> /\ GuildCurrent = "B")
    => /\ ~InSeq("A", GuildQueue)
       /\ \A t \in Slots :
            ~(tasks[t].url = "A" /\ tasks[t].pc \in {"pt_del", "pt_sleep"})

\* C39: whenever previous_button reports a failure ("No previous track in
\* history." or "Not connected to voice channel."), queue and history are as
\* they were before the press.
C39_FailedPreviousChangesNothing ==
  [][(DoPrevious
        /\ reply'.text \in {"No previous track in history.",
                            "Not connected to voice channel."})
       => GuildQueue' = GuildQueue /\ GuildHistory' = GuildHistory]_vars

\* The coroutines that run or have run handle_playback_complete.
Completions(tk) == {t \in Slots : tk[t].kind = "play_next"}
\* play_next has run on the session: the finished track is requeued as the
\* loop mode says, and the head of the queue, if any, is dequeued and loaded;
\* with an empty queue nothing is current and play_next sleeps.
Advanced ==
  \E q \in {Requeue(GuildQueue, GuildCurrent, GuildLoop)} :
    /\ players' # 0
    /\ IF q = <<>>
         THEN /\ GuildCurrent' = None
              /\ \E t \in Slots : tasks'[t].pc = "pn_sleep"
         ELSE GuildQueue' = Tail(q) /\ Loads("play_next", Head(q))

\* C31: every end of a started stream (by itself, with an error, or forced by
\* skip_button, previous_button or any other stop) schedules exactly one
\* handle_playback_complete; every handle_playback_complete runs play_next,
\* whatever the error it was called with; and skip_button and previous_button
\* advance only through it: they leave the current track as it is and load
\* nothing themselves.
C31_EveryEndAdvances ==
  [][/\ (ap \in {"playing", "paused"} /\ ap' \notin {"playing", "paused"})
          => Cardinality(Completions(tasks'))
               = Cardinality(Completions(tasks)) + 1
     /\ \A t \in Slots, iv \in BOOLEAN :
          (\/ DoPlayNext(t, iv)
           \/ DoCompleteDisconnected(t, iv)
           \/ DoCompleteClosed(t, iv) /\ vc = "none") => Advanced
     /\ (DoSkip \/ DoPrevious)
          => /\ GuildCurrent' = GuildCurrent
             /\ Cardinality({t \in Slots : tasks'[t].pc \in LoadPcs})
                  = Cardinality({t \in Slots : tasks[t].pc \in LoadPcs})]_vars
\* The stream of B ended with a ConnectionClosed error: the callback has
\* disconnected, its reconnection failed, and play_next loads C, the head of
\* the queue, connecting anew.
C31_Witness ==
  /\ vc = "none" /\ GuildCurrent = "C" /\ GuildQueue = <<>>
  /\ GuildHistory = <<"A", "B">>
  /\ \E t \in Slots :
       /\ tasks[t].kind = "play_next" /\ tasks[t].pc = "pt_conn"
       /\ tasks[t].url = "C"

\* The update_progress tasks that run for the session's GuildPlayer.
RefreshLoops == {l \in LoopSlots : loops[l].pc # "free" /\ loops[l].obj = players}

\* C32: after a pause followed by a resume of the same track, an
\* update_progress task is running for the session (so that the panel keeps
\* being refreshed while the track is current and its stream is active).
C32_RefreshedAfterResume ==
  (reply.text = "Resumed." /\ GuildCurrent # None /\ ap = "playing")
    => RefreshLoops # {}

\* C36: at most one live panel per session: whenever play_track or
\* update_progress sends a panel for a GuildPlayer, the message its
\* player_message referred to before has been deleted or is gone.
C36_OneLivePanel ==
  [][/\ \A t \in Slots : PnlPanel(t, TRUE) => tasks[t].obj \notin pnl
     /\ \A l \in LoopSlots : DoSent(l, TRUE) => loops[l].obj \notin pnl]_vars

\* C34: at any time at most one update_progress task is running in the
\* session: play_track cancels the task of the superseded track before it
\* starts the task of the new one.
C34_OneRefreshLoop == Cardinality({l \in LoopSlots : loops[l].pc # "free"}) <= 1

\* A step of update_progress task l.
RefreshStep(l) ==
  \/ DoProgress(l)
  \/ \E out \in {"ok", "notfound", "forbidden", "error"} :
       DoFetched(l, out) \/ DoEdited(l, out)
  \/ \E ok \in BOOLEAN : DoSent(l, ok)
\* update_progress task l has nothing to refresh: no current track, no voice
\* connection or no active stream.
NothingToRefresh(l) ==
  \/ P[loops[l].obj].current_track_url = None
  \/ vc = "none"
  \/ ap # "playing"

\* C35: update_progress leaves its loop by itself only when there is no
\* current track, no voice connection or no active stream, or at the third of
\* three consecutive errors (errors separated by a successful refresh do not
\* stop it); and no step of update_progress, failed or not, changes the
\* voice connection, the stream, the handlers in flight, the current track,
\* the queue or the history.
C35_RefreshStops ==
  [][\A l \in LoopSlots :
       RefreshStep(l) =>
         /\ loops'[l].pc = "free"
              => NothingToRefresh(l) \/ loops[l].streak + 1 >= MaxErrors
         /\ UNCHANGED <<players, vc, ap, tasks>>
         /\ GuildCurrent' = GuildCurrent
         /\ GuildQueue' = GuildQueue
         /\ GuildHistory' = GuildHistory]_vars

\* The yt-dlp calls of the load that were made with the cookiefile.
Credentialed == {i \in DOMAIN rsl.tries : rsl.tries[i].cred}

\* C38: a load resolves without credentials first; it makes at most one call
\* with cookies, only if cookies are available and only after a call without
\* cookies found the track restricted; and a load that ends unresolved has
\* surfaced an error and started no stream.
C38_CredentialsLast ==
  /\ rsl.tries # <<>> => ~rsl.tries[1].cred
  /\ Cardinality(Credentialed) <= 1
  /\ \A i \in Credentialed :
       /\ rsl.cookies
       /\ \E j \in 1..(i - 1) :
            ~rsl.tries[j].cred /\ rsl.tries[j].out = "restricted"
  /\ rsl.stage = "error" => rsl.err # "none" /\ ap # "playing"

\* Track u belongs to the session: it is current, queued or being loaded.
InSession(u) ==
  /\ players # 0
  /\ \/ GuildCurrent = u
     \/ InSeq(u, GuildQueue)
     \/ \E t \in Slots : tasks[t].url = u /\ tasks[t].pc \in LoadPcs
\* Idle: nothing is current, nothing streams, nothing is being loaded and no
\* completion callback is pending.
Idle ==
  /\ GuildCurrent = None
  /\ ap \notin {"playing", "paused"}
  /\ \A t \in Slots : tasks[t].pc \notin LoadPcs \cup {"cb"}

\* C40: with loop mode Queue, successful loads and no further command,
\* playback never becomes Idle and every track of the session is played
\* again and again.
C40_QueueLoopForever ==
  /\ []~Idle
  /\ \A u \in Tracks : InSession(u) ~> (GuildCurrent = u /\ ap = "playing")
====
